---- MODULE Spec2Model ----
(***************************************************************************)
(* Model of the chat buffering engine of yt-shadowban-detector             *)
(* (src/src/chat_engine.py, class YouTubeChatBuffer): one engine instance, *)
(* its caller thread, the worker threads it launches and the pytchat       *)
(* connection it polls; of the URL parser and the cached livestream        *)
(* validation of src/src/url_validator.py; and of the username search of   *)
(* the results screen of src/src/ui.py.                                    *)
(*                                                                         *)
(* Python strings that the engine inspects (author names, message texts,   *)
(* search arguments) are sequences of one-character strings, so that       *)
(* startswith, lower, == and `in` are computed and not assumed.            *)
(* None is 0 for object references (chat, worker_thread), -1 for           *)
(* first_message_time and the string "None" for error_message.             *)
(*                                                                         *)
(* Specifications:                                                         *)
(*   Spec            any sequence of start and stop calls, several workers *)
(*   SpecSession     one start, the connection failing at any call, the    *)
(*                   statistics read while the clock moves                 *)
(*   SpecSessionLive SpecSession with fair worker threads                  *)
(*   SpecStreamEndLive one start, the stream ending, is_stream_ended()     *)
(*                   asked, fair worker threads                            *)
(*   SpecFill        one worker appending more messages than the deque     *)
(*                   holds                                                 *)
(*   SpecQuery       the two searches over every small buffer              *)
(*   SpecLockLive    one worker and a thread whose queries take and        *)
(*                   release the lock step by step, fair lock holders      *)
(*   SpecRestart     an instance started, stopped and started again while  *)
(*                   the clock moves                                       *)
(*   SpecError       failing and succeeding starts, a failing fetch,       *)
(*                   get_error_message() asked                             *)
(*   SpecResults     the username search of the results screen (ui.py)     *)
(*   SpecValidate    validate_livestream() and clear_cache() calls while   *)
(*                   the clock moves                                       *)
(*   SpecParse       parse_youtube_url() on one input                      *)
(***************************************************************************)
EXTENDS Integers, Sequences, FiniteSets, TLC

\* ------------------------------------------------------------------------
\* Bounds of the model
\* ------------------------------------------------------------------------

\* start_buffering calls made on the instance (each may launch a worker)
MaxStarts == 2

\* chat.terminate() calls made on one connection
MaxTerminate == 2

\* readings of the wall clock: datetime.now() ranges over 0..MaxTime
MaxTime == 1

\* messages one chat.get().sync_items() iteration hands to the worker
MaxBatch == 2

\* messages the long stream delivers (more than maxlen)
MaxFill == 203

\* messages the mixed stream delivers
MaxFeedLen == 3

\* seconds the validator's clock runs
MaxClock == 120

\* ------------------------------------------------------------------------
\* Program constants
\* ------------------------------------------------------------------------

\* deque(maxlen=200)
maxlen == 200

\* max_reconnect_attempts = 3
max_reconnect_attempts == 3

NoTime == -1

NoError == "None"

\* ------------------------------------------------------------------------
\* Strings
\* ------------------------------------------------------------------------

UpperCase ==
    << "A", "B", "C", "D", "E", "F", "G", "H", "I", "J", "K", "L", "M", "N",
       "O", "P", "Q", "R", "S", "T", "U", "V", "W", "X", "Y", "Z" >>

LowerCase ==
    << "a", "b", "c", "d", "e", "f", "g", "h", "i", "j", "k", "l", "m", "n",
       "o", "p", "q", "r", "s", "t", "u", "v", "w", "x", "y", "z" >>

\* str.lower() on one character
LowerChar(c) ==
    IF \E i \in 1..26 : UpperCase[i] = c
    THEN LowerCase[CHOOSE i \in 1..26 : UpperCase[i] = c]
    ELSE c

\* str.lower()
Lower(s) == [i \in 1..Len(s) |-> LowerChar(s[i])]

\* author_name.startswith('@')
StartsWithAt(s) == Len(s) >= 1 /\ s[1] = "@"

\* `identifier in msg['message']`: some window of the text is the needle
StrIn(needle, text) ==
    \E i \in 0..(Len(text) - Len(needle)) :
        \A j \in 1..Len(needle) : text[i + j] = needle[j]

\* a normalisation that cuts off a second '@' as well
StripAtTwice(name) ==
    IF ~StartsWithAt(name) THEN name
    ELSE IF StartsWithAt(Tail(name)) THEN Tail(Tail(name)) ELSE Tail(name)

\* lines 89-91: the author name with a leading '@' cut off
StripAt(name) == IF StartsWithAt(name) THEN Tail(name) ELSE name

\* lines 93-97: the dict stored for one fetched message
MsgDict(raw, t) ==
    [author |-> StripAt(raw.authorName), message |-> raw.text, timestamp |-> t]

\* a deque built without maxlen: append never evicts
DequeAppendUnbounded(buf, m) == Append(buf, m)

\* a full buffer that refuses the new message instead of evicting the oldest
DequeAppendDropNewest(buf, m) ==
    IF Len(buf) >= maxlen THEN buf ELSE Append(buf, m)

\* deque.append on a deque with a maximum length
DequeAppend(buf, m) ==
    IF Len(buf) >= maxlen THEN Append(Tail(buf), m) ELSE Append(buf, m)

\* ------------------------------------------------------------------------
\* State
\* ------------------------------------------------------------------------

VARIABLES
    chat,               \* self.chat: 0 is None, n > 0 the connection of the n-th start call
    buffer,             \* self.buffer: the deque, oldest message first
    buffer_lock,        \* self.buffer_lock: 0 is free, w > 0 held by worker w
    worker_thread,      \* self.worker_thread: 0 is None, w > 0 the w-th Thread
    stop_flag,          \* self.stop_flag.is_set()
    stream_ended_flag,  \* self.stream_ended_flag.is_set()
    error_message,      \* self.error_message
    first_message_time, \* self.first_message_time
    threads,            \* the Thread objects created by start_buffering and the
                        \* locals of _buffer_loop running in each
    caller,             \* where the calling thread is: "idle", or inside stop_buffering
    ret,                \* what the call completed by the last step returned, if any
    starts,             \* start_buffering calls made so far
    now,                \* the reading datetime.now() gives
    alive,              \* what chat.is_alive() answers
    feed,               \* the stream the connection is on
    fetched,            \* how many of them chat.get() has handed out
    terminate_calls,    \* chat.terminate() calls made, per connection
    appended,           \* history: every message dict appended to the deque, in order
    validation_cache,   \* url_validator._validation_cache: video id -> (result, time)
    last_validate,      \* history: the latest validate_livestream call that got past line 75
    query               \* the thread that runs a query of the buffer step by step

vars == << chat, buffer, buffer_lock, worker_thread, stop_flag, stream_ended_flag,
           error_message, first_message_time, threads, caller, ret, starts,
           now, alive, feed, fetched, terminate_calls, appended,
           validation_cache, last_validate, query >>

validator == << validation_cache, last_validate >>

\* what no step of the engine touches: the stream it is on, the validator's
\* cache and the thread that queries the buffer
outside == << feed, validator, query >>

engine == << chat, buffer, worker_thread, stop_flag, stream_ended_flag,
             error_message, first_message_time >>

ThreadIds == 1..MaxStarts

\* the step taken completes no call of the caller
NoReturn == [op |-> "none"]

Silent == ret' = NoReturn

\* a Thread object that start_buffering has not created yet
NoThread ==
    [pc |-> "unborn", reconnect_attempts |-> 0, backoff_time |-> 1,
     batch |-> << >>, msg_dict |-> << >>]

\* Thread.is_alive()
ThreadAlive(w) == threads[w].pc \notin {"unborn", "done"}

\* ------------------------------------------------------------------------
\* The streams
\* ------------------------------------------------------------------------

\* decimal digits of n, most significant first
RECURSIVE Digits(_)
Digits(n) ==
    IF n < 10 THEN << ToString(n) >> ELSE Append(Digits(n \div 10), ToString(n % 10))

\* the n-th message of the long stream: distinct texts, two authors
LongMessage(n) ==
    [authorName |-> IF n % 2 = 0 THEN << "@", "a" >> ELSE << "B" >>, text |-> Digits(n)]

\* the message the short stream repeats
ShortMessage == [authorName |-> << "@", "A", "b" >>, text |-> << "a", "B" >>]

\* the raw messages the mixed stream delivers, in any order
RawMessages ==
    { [authorName |-> << "@", "A" >>, text |-> << "a", "b" >>],
      [authorName |-> << "a", "b" >>, text |-> << "A" >>],
      [authorName |-> << "a" >>, text |-> << "b", "a", "B" >>],
      [authorName |-> << "@", "@", "a" >>, text |-> << "b" >>] }

\* author names and needles the search scenario asks for
SearchArgs ==
    { << >>, << "a" >>, << "A" >>, << "a", "B" >>, << "@", "a" >>, << "b" >>,
      << "a", " " >> }

\* how many messages a stream delivers before it goes quiet
FeedLen(stream) == IF stream = "long" THEN MaxFill ELSE MaxFeedLen

\* the raw messages a stream may deliver as its n-th message
FeedChoices(stream, n) ==
    CASE stream = "long" -> { LongMessage(n) }
      [] stream = "mixed" -> RawMessages
      [] OTHER -> { ShortMessage }

\* the batches of k messages chat.get() may hand out after n messages
RECURSIVE Batches(_, _, _)
Batches(stream, n, k) ==
    IF k = 0 THEN { << >> }
    ELSE { << first >> \o rest :
             first \in FeedChoices(stream, n + 1), rest \in Batches(stream, n + 1, k - 1) }

\* ------------------------------------------------------------------------
\* The state outside the engine
\* ------------------------------------------------------------------------

\* the video ids validate_livestream is called with ("" is the empty string)
VideoIds == { "", "dQw4w9WgXcQ", "jNQXAC9IVRw" }

\* the keys _validation_cache can have
CacheKeys == VideoIds \ { "" }

\* `video_id not in _validation_cache`
NoEntry == << >>

\* _validation_cache = {}
EmptyCache == [video_id \in CacheKeys |-> NoEntry]

\* no validate_livestream call has got past line 75 yet
NoCall == [video_id |-> "", time |-> NoTime]

\* no query of the buffer is under way
NoQuery == [pc |-> "idle"]

InitOutside ==
    /\ validation_cache = EmptyCache
    /\ last_validate = NoCall
    /\ query = NoQuery

\* ------------------------------------------------------------------------
\* __init__
\* ------------------------------------------------------------------------

InitEngine ==
    /\ chat = 0
    /\ buffer = << >>
    /\ buffer_lock = 0
    /\ worker_thread = 0
    /\ stop_flag = FALSE
    /\ stream_ended_flag = FALSE
    /\ error_message = NoError
    /\ first_message_time = NoTime
    /\ threads = [w \in ThreadIds |-> NoThread]
    /\ caller = "idle"
    /\ ret = NoReturn
    /\ starts = 0
    /\ now = 0
    /\ alive = TRUE
    /\ fetched = 0
    /\ terminate_calls = [c \in ThreadIds |-> 0]
    /\ appended = << >>

Init == InitEngine /\ InitOutside /\ feed = "short"

InitFill == InitEngine /\ InitOutside /\ feed = "long"

InitQuery == InitEngine /\ InitOutside /\ feed = "mixed"

\* ------------------------------------------------------------------------
\* start_buffering (lines 35-71), run by the calling thread
\* ------------------------------------------------------------------------

\* what str(e) gives for an exception that is not InvalidVideoIdException
ErrDescs == { "timed out" }

\* lines 78-80: the locals of a _buffer_loop that is about to run
NewThread ==
    [pc |-> "loop", reconnect_attempts |-> 0, backoff_time |-> 1,
     batch |-> << >>, msg_dict |-> << >>]

\* lines 58-64: clear both flags, create the Thread and start it
LaunchWorker(w) ==
    /\ stop_flag' = FALSE
    /\ stream_ended_flag' = FALSE
    /\ worker_thread' = w
    /\ threads' = [threads EXCEPT ![w] = NewThread]

\* what start_buffering hands back, with what the collaborator did during the
\* call: how self.chat was obtained ("passed", "created", or the exception
\* pytchat.create raised) and what is_alive() did ("True", "False", the
\* exception it raised, or "not called")
StartReturn(value, raised, how, is_alive) ==
    [op |-> "start_buffering", value |-> value, raised |-> raised,
     chat_object |-> how, is_alive |-> is_alive]

\* lines 47-64: a connection is passed in (line 48) or created (line 51),
\* is_alive() answers True, the worker is launched
StartBufferingLive ==
    /\ caller = "idle"
    /\ starts < MaxStarts
    /\ alive
    /\ starts' = starts + 1
    /\ chat' = starts + 1
    /\ LaunchWorker(starts + 1)
    /\ \E how \in { "passed", "created" } : ret' = StartReturn(TRUE, FALSE, how, "True")
    /\ UNCHANGED << buffer, buffer_lock, error_message, first_message_time, caller,
                    now, alive, outside, fetched, terminate_calls, appended >>

\* the flags cleared before the liveness check instead of after it
StartBufferingNotLiveClearsFlags ==
    /\ caller = "idle"
    /\ starts < MaxStarts
    /\ ~alive
    /\ starts' = starts + 1
    /\ chat' = starts + 1
    /\ stop_flag' = FALSE
    /\ stream_ended_flag' = FALSE
    /\ error_message' = "Stream is not live"
    /\ \E how \in { "passed", "created" } : ret' = StartReturn(FALSE, FALSE, how, "False")
    /\ UNCHANGED << buffer, buffer_lock, worker_thread, first_message_time, threads,
                    caller, now, alive, outside, fetched, terminate_calls, appended >>

\* lines 47-56: a connection is passed in or created, is_alive() answers False
StartBufferingNotLive ==
    /\ caller = "idle"
    /\ starts < MaxStarts
    /\ ~alive
    /\ starts' = starts + 1
    /\ chat' = starts + 1
    /\ error_message' = "Stream is not live"
    /\ \E how \in { "passed", "created" } : ret' = StartReturn(FALSE, FALSE, how, "False")
    /\ UNCHANGED << buffer, buffer_lock, worker_thread, stop_flag, stream_ended_flag,
                    first_message_time, threads, caller, now, alive, outside,
                    fetched, terminate_calls, appended >>

\* line 51 raises: pytchat.create fails, self.chat is not assigned
\* (lines 66-71 pick the message by the exception's class)
StartBufferingCreateRaises ==
    /\ caller = "idle"
    /\ starts < MaxStarts
    /\ starts' = starts + 1
    /\ \E exc \in { "InvalidVideoIdException" } \cup ErrDescs :
        /\ error_message' =
              IF exc = "InvalidVideoIdException" THEN "Invalid video ID"
              ELSE "Failed to connect: " \o exc
        /\ ret' = StartReturn(FALSE, FALSE, exc, "not called")
    /\ UNCHANGED << chat, buffer, buffer_lock, worker_thread, stop_flag,
                    stream_ended_flag, first_message_time, threads, caller,
                    now, alive, outside, fetched, terminate_calls, appended >>

\* start_buffering without the `except Exception` clause: the exception of
\* is_alive() leaves the call
StartBufferingAliveRaisesUncaught ==
    /\ caller = "idle"
    /\ starts < MaxStarts
    /\ starts' = starts + 1
    /\ chat' = starts + 1
    /\ \E how \in { "passed", "created" }, exc \in ErrDescs :
        ret' = StartReturn(FALSE, TRUE, how, exc)
    /\ UNCHANGED << buffer, buffer_lock, worker_thread, stop_flag, stream_ended_flag,
                    error_message, first_message_time, threads, caller, now, alive,
                    outside, fetched, terminate_calls, appended >>

\* line 54 raises: self.chat is assigned, is_alive() fails
\* (lines 69-71 catch it)
StartBufferingAliveRaises ==
    /\ caller = "idle"
    /\ starts < MaxStarts
    /\ starts' = starts + 1
    /\ chat' = starts + 1
    /\ \E how \in { "passed", "created" }, exc \in ErrDescs :
        /\ error_message' = "Failed to connect: " \o exc
        /\ ret' = StartReturn(FALSE, FALSE, how, exc)
    /\ UNCHANGED << buffer, buffer_lock, worker_thread, stop_flag, stream_ended_flag,
                    first_message_time, threads, caller, now, alive, outside,
                    fetched, terminate_calls, appended >>

StartBuffering ==
    \/ StartBufferingLive
    \/ StartBufferingNotLive
    \/ StartBufferingCreateRaises
    \/ StartBufferingAliveRaises

\* ------------------------------------------------------------------------
\* _buffer_loop (lines 73-131), run by each worker thread
\* ------------------------------------------------------------------------

RetryMessage(k) ==
    "Connection error, retrying... (" \o ToString(k) \o "/"
        \o ToString(max_reconnect_attempts) \o ")"

LostMessage ==
    "Connection lost after " \o ToString(max_reconnect_attempts) \o " attempts"

\* a loop without the try/except: the exception ends the thread
HandleExceptionUncaught(w) ==
    /\ threads' = [threads EXCEPT ![w].batch = << >>, ![w].pc = "raised"]
    /\ UNCHANGED error_message

\* an except clause that gives up on the failure that reaches the maximum
HandleExceptionGivesUpEarly(w) ==
    LET k == threads[w].reconnect_attempts + 1
    IN  IF k < max_reconnect_attempts
        THEN /\ error_message' = RetryMessage(k)
             /\ threads' = [threads EXCEPT ![w].reconnect_attempts = k,
                                           ![w].batch = << >>,
                                           ![w].pc = "backoff"]
        ELSE /\ error_message' = LostMessage
             /\ threads' = [threads EXCEPT ![w].reconnect_attempts = k,
                                           ![w].batch = << >>,
                                           ![w].pc = "done"]

\* an except clause after which the rest of the batch is still at hand
HandleExceptionKeepsBatch(w) ==
    LET k == threads[w].reconnect_attempts + 1
    IN  IF k <= max_reconnect_attempts
        THEN /\ error_message' = RetryMessage(k)
             /\ threads' = [threads EXCEPT ![w].reconnect_attempts = k,
                                           ![w].pc = "backoff"]
        ELSE /\ error_message' = LostMessage
             /\ threads' = [threads EXCEPT ![w].reconnect_attempts = k,
                                           ![w].pc = "done"]

\* lines 117-131: the except clause, entered from anywhere in the try block
HandleException(w) ==
    LET k == threads[w].reconnect_attempts + 1
    IN  IF k <= max_reconnect_attempts
        THEN /\ error_message' = RetryMessage(k)
             /\ threads' = [threads EXCEPT ![w].reconnect_attempts = k,
                                           ![w].batch = << >>,
                                           ![w].pc = "backoff"]
        ELSE /\ error_message' = LostMessage
             /\ threads' = [threads EXCEPT ![w].reconnect_attempts = k,
                                           ![w].batch = << >>,
                                           ![w].pc = "done"]

\* a loop that never looks at the stop flag
LoopHeadIgnoresStop(w) ==
    /\ threads[w].pc = "loop"
    /\ threads' = [threads EXCEPT ![w].pc = "check"]
    /\ Silent
    /\ UNCHANGED << engine, buffer_lock, caller, starts, now, alive, outside, fetched,
                    terminate_calls, appended >>

\* line 82: the while condition
LoopHead(w) ==
    /\ threads[w].pc = "loop"
    /\ threads' = [threads EXCEPT ![w].pc = IF stop_flag THEN "done" ELSE "check"]
    /\ Silent
    /\ UNCHANGED << engine, buffer_lock, caller, starts, now, alive, outside, fetched,
                    terminate_calls, appended >>

\* a loop that leaves on a dead connection without setting the flag
CheckAliveBreaksSilently(w) ==
    /\ threads[w].pc = "check"
    /\ threads' = [threads EXCEPT ![w].pc = IF chat # 0 /\ alive THEN "fetch" ELSE "done"]
    /\ Silent
    /\ UNCHANGED << engine, buffer_lock, caller, starts, now, alive, outside, fetched,
                    terminate_calls, appended >>

\* line 84 and lines 109-112: the liveness check answers
CheckAlive(w) ==
    /\ threads[w].pc = "check"
    /\ IF chat # 0 /\ alive
       THEN /\ threads' = [threads EXCEPT ![w].pc = "fetch"]
            /\ UNCHANGED stream_ended_flag
       ELSE /\ threads' = [threads EXCEPT ![w].pc = "done"]
            /\ stream_ended_flag' = TRUE
    /\ Silent
    /\ UNCHANGED << chat, buffer, buffer_lock, worker_thread, stop_flag,
                    error_message, first_message_time, caller, starts, now, alive,
                    outside, fetched, terminate_calls, appended >>

\* line 84: the liveness check raises
CheckAliveRaises(w) ==
    /\ threads[w].pc = "check"
    /\ chat # 0
    /\ HandleException(w)
    /\ Silent
    /\ UNCHANGED << chat, buffer, buffer_lock, worker_thread, stop_flag,
                    stream_ended_flag, first_message_time, caller, starts, now,
                    alive, outside, fetched, terminate_calls, appended >>

\* line 86: chat.get() returns the next messages of the feed (possibly none)
FetchReturns(w) ==
    /\ threads[w].pc = "fetch"
    /\ \E k \in 0..MaxBatch :
        /\ fetched + k <= FeedLen(feed)
        /\ fetched' = fetched + k
        /\ \E batch \in Batches(feed, fetched, k) :
              threads' = [threads EXCEPT ![w].batch = batch, ![w].pc = "items"]
    /\ Silent
    /\ UNCHANGED << engine, buffer_lock, caller, starts, now, alive, outside,
                    terminate_calls, appended >>

\* line 86: chat.get() raises
FetchRaises(w) ==
    /\ threads[w].pc = "fetch"
    /\ HandleException(w)
    /\ Silent
    /\ UNCHANGED << chat, buffer, buffer_lock, worker_thread, stop_flag,
                    stream_ended_flag, first_message_time, caller, starts, now,
                    alive, outside, fetched, terminate_calls, appended >>

\* a worker that appends without waiting for the lock
ItemLockNotWaiting(w) ==
    /\ threads[w].pc = "items"
    /\ threads[w].batch # << >>
    /\ buffer_lock' = w
    /\ threads' = [threads EXCEPT ![w].msg_dict = MsgDict(Head(threads[w].batch), now),
                                  ![w].batch = Tail(threads[w].batch),
                                  ![w].pc = "append"]
    /\ Silent
    /\ UNCHANGED << engine, caller, starts, now, alive, outside, fetched,
                    terminate_calls, appended >>

\* lines 89-100: build the dict of the next message and take the lock
ItemLock(w) ==
    /\ threads[w].pc = "items"
    /\ threads[w].batch # << >>
    /\ buffer_lock = 0
    /\ buffer_lock' = w
    /\ threads' = [threads EXCEPT ![w].msg_dict = MsgDict(Head(threads[w].batch), now),
                                  ![w].batch = Tail(threads[w].batch),
                                  ![w].pc = "append"]
    /\ Silent
    /\ UNCHANGED << engine, caller, starts, now, alive, outside, fetched,
                    terminate_calls, appended >>

\* lines 86-97: reading the next message raises
ItemRaises(w) ==
    /\ threads[w].pc = "items"
    /\ threads[w].batch # << >>
    /\ HandleException(w)
    /\ Silent
    /\ UNCHANGED << chat, buffer, buffer_lock, worker_thread, stop_flag,
                    stream_ended_flag, first_message_time, caller, starts, now,
                    alive, outside, fetched, terminate_calls, appended >>

\* a worker that keeps the lock after the append
ItemAppendKeepsLock(w) ==
    /\ threads[w].pc = "append"
    /\ buffer_lock = w
    /\ buffer' = DequeAppend(buffer, threads[w].msg_dict)
    /\ appended' = Append(appended, threads[w].msg_dict)
    /\ first_message_time' = IF first_message_time = NoTime THEN now
                             ELSE first_message_time
    /\ threads' = [threads EXCEPT ![w].msg_dict = << >>, ![w].pc = "items"]
    /\ Silent
    /\ UNCHANGED << chat, buffer_lock, worker_thread, stop_flag, stream_ended_flag,
                    error_message, caller, starts, now, alive, outside, fetched,
                    terminate_calls >>

\* a worker that stamps first_message_time at every append
ItemAppendStampsEach(w) ==
    /\ threads[w].pc = "append"
    /\ buffer_lock = w
    /\ buffer' = DequeAppend(buffer, threads[w].msg_dict)
    /\ appended' = Append(appended, threads[w].msg_dict)
    /\ first_message_time' = now
    /\ buffer_lock' = 0
    /\ threads' = [threads EXCEPT ![w].msg_dict = << >>, ![w].pc = "items"]
    /\ Silent
    /\ UNCHANGED << chat, worker_thread, stop_flag, stream_ended_flag,
                    error_message, caller, starts, now, alive, outside, fetched,
                    terminate_calls >>

\* lines 100-103: append under the lock, stamp the first message, release
ItemAppend(w) ==
    /\ threads[w].pc = "append"
    /\ buffer_lock = w
    /\ buffer' = DequeAppend(buffer, threads[w].msg_dict)
    /\ appended' = Append(appended, threads[w].msg_dict)
    /\ first_message_time' = IF first_message_time = NoTime THEN now
                             ELSE first_message_time
    /\ buffer_lock' = 0
    /\ threads' = [threads EXCEPT ![w].msg_dict = << >>, ![w].pc = "items"]
    /\ Silent
    /\ UNCHANGED << chat, worker_thread, stop_flag, stream_ended_flag,
                    error_message, caller, starts, now, alive, outside, fetched,
                    terminate_calls >>

\* a loop that never forgets a failure
BatchDoneKeepsCounters(w) ==
    /\ threads[w].pc = "items"
    /\ threads[w].batch = << >>
    /\ threads' = [threads EXCEPT ![w].pc = "pause"]
    /\ Silent
    /\ UNCHANGED << engine, buffer_lock, caller, starts, now, alive, outside, fetched,
                    terminate_calls, appended >>

\* a loop that withdraws the retry message when a fetch succeeds
BatchDoneClearsError(w) ==
    /\ threads[w].pc = "items"
    /\ threads[w].batch = << >>
    /\ threads' = [threads EXCEPT ![w].reconnect_attempts = 0,
                                  ![w].backoff_time = 1,
                                  ![w].pc = "pause"]
    /\ error_message' = NoError
    /\ Silent
    /\ UNCHANGED << chat, buffer, worker_thread, stop_flag, stream_ended_flag,
                    first_message_time, buffer_lock, caller, starts, now, alive,
                    outside, fetched, terminate_calls, appended >>

\* lines 105-107 and 115: the batch is through, reset the counters and pause
BatchDone(w) ==
    /\ threads[w].pc = "items"
    /\ threads[w].batch = << >>
    /\ threads' = [threads EXCEPT ![w].reconnect_attempts = 0,
                                  ![w].backoff_time = 1,
                                  ![w].pc = "pause"]
    /\ Silent
    /\ UNCHANGED << engine, buffer_lock, caller, starts, now, alive, outside, fetched,
                    terminate_calls, appended >>

\* line 115: time.sleep(0.5) returns
PauseDone(w) ==
    /\ threads[w].pc = "pause"
    /\ threads' = [threads EXCEPT ![w].pc = "loop"]
    /\ Silent
    /\ UNCHANGED << engine, buffer_lock, caller, starts, now, alive, outside, fetched,
                    terminate_calls, appended >>

\* a retry that always waits the same time
BackoffDoneNoDoubling(w) ==
    /\ threads[w].pc = "backoff"
    /\ threads' = [threads EXCEPT ![w].pc = "loop"]
    /\ Silent
    /\ UNCHANGED << engine, buffer_lock, caller, starts, now, alive, outside, fetched,
                    terminate_calls, appended >>

\* lines 123-124: time.sleep(backoff_time) returns, the backoff doubles
BackoffDone(w) ==
    /\ threads[w].pc = "backoff"
    /\ threads' = [threads EXCEPT ![w].backoff_time = 2 * threads[w].backoff_time,
                                  ![w].pc = "loop"]
    /\ Silent
    /\ UNCHANGED << engine, buffer_lock, caller, starts, now, alive, outside, fetched,
                    terminate_calls, appended >>

\* the steps of a worker in which nothing raises
WorkerStep(w) ==
    \/ LoopHead(w)
    \/ CheckAlive(w)
    \/ FetchReturns(w)
    \/ ItemLock(w)
    \/ ItemAppend(w)
    \/ BatchDone(w)
    \/ PauseDone(w)

\* the steps of a worker on the failure path: the collaborator raises, and the
\* backoff sleep that follows ends
WorkerRaises(w) ==
    \/ CheckAliveRaises(w)
    \/ FetchRaises(w)
    \/ ItemRaises(w)
    \/ BackoffDone(w)

\* ------------------------------------------------------------------------
\* The queries (lines 133-200), run by any thread, under the lock
\* ------------------------------------------------------------------------

\* lines 149-153: the dict a search returns for a stored message
MatchDict(msg) ==
    [author |-> msg.author, message |-> msg.message, timestamp |-> msg.timestamp]

\* a test that cuts a leading '@' off the searched name as well
AuthorMatchesNormalized(username, msg) == Lower(msg.author) = Lower(StripAt(username))

\* a search that ignores case, as search_by_username does
TextMatchesAnyCase(identifier, msg) == StrIn(Lower(identifier), Lower(msg.message))

\* line 148: the test search_buffer applies to a stored message
TextMatches(identifier, msg) == StrIn(identifier, msg.message)

\* a comparison that forgets .lower() on both sides
AuthorMatchesExactCase(username, msg) == msg.author = username

\* line 173: the test search_by_username applies to a stored message
AuthorMatches(username, msg) == Lower(msg.author) = Lower(username)

\* lines 143-155: walk the deque from the oldest message and collect, in that
\* order, a copy of every message that passes the test
search_buffer(buf, identifier) ==
    LET hits == SelectSeq(buf, LAMBDA msg : TextMatches(identifier, msg))
    IN  [k \in 1..Len(hits) |-> MatchDict(hits[k])]

\* lines 167-180: walk the deque from the oldest message and collect, in that
\* order, a copy of every message that passes the test
search_by_username(buf, username) ==
    LET hits == SelectSeq(buf, LAMBDA msg : AuthorMatches(username, msg))
    IN  [k \in 1..Len(hits) |-> MatchDict(hits[k])]

\* statistics that subtract without looking whether a first message exists
get_buffer_stats_no_guard(buf, first, t) ==
    [message_count |-> Len(buf), time_span_seconds |-> t - first]

\* lines 189-200
get_buffer_stats(buf, first, t) ==
    [message_count |-> Len(buf),
     time_span_seconds |-> IF first # NoTime THEN t - first ELSE 0]

SearchBuffer(args) ==
    /\ buffer_lock = 0
    /\ \E identifier \in args :
        ret' = [op |-> "search_buffer", arg |-> identifier,
                value |-> search_buffer(buffer, identifier), raised |-> FALSE]
    /\ UNCHANGED << engine, buffer_lock, threads, caller, starts, now, alive,
                    outside, fetched, terminate_calls, appended >>

SearchByUsername(args) ==
    /\ buffer_lock = 0
    /\ \E username \in args :
        ret' = [op |-> "search_by_username", arg |-> username,
                value |-> search_by_username(buffer, username),
                raised |-> FALSE]
    /\ UNCHANGED << engine, buffer_lock, threads, caller, starts, now, alive,
                    outside, fetched, terminate_calls, appended >>

GetBufferStats ==
    /\ buffer_lock = 0
    /\ ret' = [op |-> "get_buffer_stats",
               value |-> get_buffer_stats(buffer, first_message_time, now),
               raised |-> FALSE]
    /\ UNCHANGED << engine, buffer_lock, threads, caller, starts, now, alive,
                    outside, fetched, terminate_calls, appended >>

\* ------------------------------------------------------------------------
\* The queries step by step: the call, the lock taken, the lock released
\* ------------------------------------------------------------------------

\* the holder of buffer_lock when it is the querying thread
QueryThread == -1

\* the queries and arguments of the locking scenario
QueryCalls ==
    { [op |-> "search_buffer", arg |-> << "a" >>],
      [op |-> "search_by_username", arg |-> << "a", "b" >>],
      [op |-> "get_buffer_stats", arg |-> << >>] }

\* lines 143, 167-168, 189: the call is made and comes to `with self.buffer_lock`
QueryCall ==
    /\ query.pc = "idle"
    /\ \E call \in QueryCalls :
          query' = [pc |-> "waiting", op |-> call.op, arg |-> call.arg]
    /\ Silent
    /\ UNCHANGED << engine, buffer_lock, threads, caller, starts, now, alive, feed,
                    fetched, terminate_calls, appended, validator >>

\* lines 145-146, 170-171, 189-190: the lock is taken; a search starts to walk
\* the deque, which remembers how often it has been changed, and the
\* statistics read its length
QueryAcquire ==
    /\ query.pc = "waiting"
    /\ buffer_lock = 0
    /\ buffer_lock' = QueryThread
    /\ query' = [pc |-> "reading", op |-> query.op, arg |-> query.arg,
                 changes |-> Len(appended), message_count |-> Len(buffer)]
    /\ Silent
    /\ UNCHANGED << engine, threads, caller, starts, now, alive, feed,
                    fetched, terminate_calls, appended, validator >>

\* lines 146-155, 171-180, 192-200: the rest is read, the lock released and
\* the result returned; walking a deque that was changed in the meantime
\* raises RuntimeError
QueryRelease ==
    /\ query.pc = "reading"
    /\ buffer_lock' = 0
    /\ query' = NoQuery
    /\ ret' =
          CASE query.op = "get_buffer_stats" ->
                 [op |-> query.op, arg |-> query.arg, raised |-> FALSE,
                  value |-> [message_count |-> query.message_count,
                             time_span_seconds |->
                                get_buffer_stats(buffer, first_message_time, now)
                                   .time_span_seconds]]
            [] query.changes # Len(appended) ->
                 [op |-> query.op, arg |-> query.arg, raised |-> TRUE, value |-> << >>]
            [] query.op = "search_buffer" ->
                 [op |-> query.op, arg |-> query.arg, raised |-> FALSE,
                  value |-> search_buffer(buffer, query.arg)]
            [] OTHER ->
                 [op |-> query.op, arg |-> query.arg, raised |-> FALSE,
                  value |-> search_by_username(buffer, query.arg)]
    /\ UNCHANGED << engine, threads, caller, starts, now, alive, feed,
                    fetched, terminate_calls, appended, validator >>

\* ------------------------------------------------------------------------
\* stop_buffering (lines 202-218), run by the calling thread
\* ------------------------------------------------------------------------

\* terminate() called without the try/except around it
TerminateEscapesUncaught(terminate_raises) == terminate_raises

\* lines 215-218: whether an exception leaves stop_buffering, given whether
\* chat.terminate() raised one: the bare except swallows it
TerminateEscapes(terminate_raises) == FALSE

\* a stop that releases the connection without waiting for the worker
StopSetFlagNoWait ==
    /\ caller = "idle"
    /\ chat # 0 => terminate_calls[chat] < MaxTerminate
    /\ stop_flag' = TRUE
    /\ caller' = "terminate"
    /\ Silent
    /\ UNCHANGED << chat, buffer, buffer_lock, worker_thread, stream_ended_flag,
                    error_message, first_message_time, threads, starts, now, alive,
                    outside, fetched, terminate_calls, appended >>

\* lines 207-210: set the flag, then look whether there is a live thread to join
StopSetFlag ==
    /\ caller = "idle"
    /\ chat # 0 => terminate_calls[chat] < MaxTerminate
    /\ stop_flag' = TRUE
    /\ caller' = IF worker_thread # 0 /\ ThreadAlive(worker_thread)
                 THEN "join" ELSE "terminate"
    /\ Silent
    /\ UNCHANGED << chat, buffer, buffer_lock, worker_thread, stream_ended_flag,
                    error_message, first_message_time, threads, starts, now, alive,
                    outside, fetched, terminate_calls, appended >>

\* line 211: join returns because the thread has ended
StopJoined ==
    /\ caller = "join"
    /\ ~ThreadAlive(worker_thread)
    /\ caller' = "terminate"
    /\ Silent
    /\ UNCHANGED << engine, buffer_lock, threads, starts, now, alive, outside,
                    fetched, terminate_calls, appended >>

\* line 211: join returns because the 5 seconds are over
StopJoinTimeout ==
    /\ caller = "join"
    /\ ThreadAlive(worker_thread)
    /\ caller' = "terminate"
    /\ Silent
    /\ UNCHANGED << engine, buffer_lock, threads, starts, now, alive, outside,
                    fetched, terminate_calls, appended >>

\* a stop that empties the deque when it releases the connection
StopTerminateDiscardsBuffer ==
    /\ caller = "terminate"
    /\ caller' = "idle"
    /\ buffer' = << >>
    /\ IF chat # 0
       THEN \E terminate_raises \in BOOLEAN :
              /\ terminate_calls' = [terminate_calls EXCEPT ![chat] = @ + 1]
              /\ ret' = [op |-> "stop_buffering", terminate_raised |-> terminate_raises,
                         raised |-> TerminateEscapes(terminate_raises)]
       ELSE /\ UNCHANGED terminate_calls
            /\ ret' = [op |-> "stop_buffering", terminate_raised |-> FALSE,
                       raised |-> FALSE]
    /\ UNCHANGED << chat, worker_thread, stop_flag, stream_ended_flag, error_message,
                    first_message_time, buffer_lock, threads, starts, now, alive,
                    outside, fetched, appended >>

\* lines 214-218: release the connection, whatever terminate() does
StopTerminate ==
    /\ caller = "terminate"
    /\ caller' = "idle"
    /\ IF chat # 0
       THEN \E terminate_raises \in BOOLEAN :
              /\ terminate_calls' = [terminate_calls EXCEPT ![chat] = @ + 1]
              /\ ret' = [op |-> "stop_buffering", terminate_raised |-> terminate_raises,
                         raised |-> TerminateEscapes(terminate_raises)]
       ELSE /\ UNCHANGED terminate_calls
            /\ ret' = [op |-> "stop_buffering", terminate_raised |-> FALSE,
                       raised |-> FALSE]
    /\ UNCHANGED << engine, buffer_lock, threads, starts, now, alive, outside,
                    fetched, appended >>

StopBuffering ==
    \/ StopSetFlag
    \/ StopJoined
    \/ StopJoinTimeout
    \/ StopTerminate

\* ------------------------------------------------------------------------
\* The observers (lines 220-236), run by any thread, without the lock
\* ------------------------------------------------------------------------

\* lines 220-227
is_stream_ended == stream_ended_flag

IsStreamEnded ==
    /\ ret' = [op |-> "is_stream_ended", value |-> is_stream_ended, raised |-> FALSE]
    /\ UNCHANGED << engine, buffer_lock, threads, caller, starts, now, alive,
                    outside, fetched, terminate_calls, appended >>

\* lines 229-236
get_error_message == error_message

GetErrorMessage ==
    /\ ret' = [op |-> "get_error_message", value |-> get_error_message, raised |-> FALSE]
    /\ UNCHANGED << engine, buffer_lock, threads, caller, starts, now, alive,
                    outside, fetched, terminate_calls, appended >>

\* ------------------------------------------------------------------------
\* validate_livestream and clear_cache (url_validator.py, lines 54-145)
\* ------------------------------------------------------------------------

\* the string a sequence of characters spells
RECURSIVE Join(_)
Join(chars) == IF chars = << >> THEN "" ELSE Head(chars) \o Join(Tail(chars))

\* nothing was raised
NoException == [class |-> "none", str |-> << >>]

\* what pytchat.create or is_alive() may raise, with what str(e) gives: the
\* signal error of a thread that is not the main one, in two spellings, and an
\* error that mentions only one of the two words
Exceptions ==
    { [class |-> "InvalidVideoIdException", str |-> << >>],
      [class |-> "ValueError",
       str |-> << "s", "i", "g", "n", "a", "l", " ", "o", "n", "l", "y", " ", "w", "o",
              "r", "k", "s", " ", "i", "n", " ", "m", "a", "i", "n", " ", "t", "h",
              "r", "e", "a", "d" >>],
      [class |-> "ValueError",
       str |-> << "S", "I", "G", "N", "A", "L", ":", " ", "M", "A", "I", "N", " ", "T",
              "H", "R", "E", "A", "D" >>],
      [class |-> "TimeoutError",
       str |-> << "s", "i", "g", "n", "a", "l", " ", "t", "i", "m", "e", "d", " ", "o",
              "u", "t" >>] }

\* what the collaborator does in one validate_livestream call: whether
\* pytchat.create returns a connection, what is_alive() answers on it, what
\* one of the two raises, and whether terminate() raises
Outcomes ==
    { o \in [created : BOOLEAN, alive : BOOLEAN,
             exc : Exceptions \cup { NoException }, terminate_raises : BOOLEAN] :
        /\ o.alive => (o.created /\ o.exc = NoException)
        /\ ~o.created => (o.exc # NoException /\ ~o.terminate_raises) }

\* lines 71-75
NoVideoIdResult == [valid |-> FALSE, live |-> FALSE, error |-> "No video ID provided"]

\* a test that forgets .lower()
IsSignalErrorExactCase(error_str) ==
    /\ StrIn(<< "s", "i", "g", "n", "a", "l" >>, error_str)
    /\ StrIn(<< "m", "a", "i", "n", " ", "t", "h", "r", "e", "a", "d" >>, error_str)

\* line 112
IsSignalError(error_str) ==
    /\ StrIn(<< "s", "i", "g", "n", "a", "l" >>, Lower(error_str))
    /\ StrIn(<< "m", "a", "i", "n", " ", "t", "h", "r", "e", "a", "d" >>, Lower(error_str))

\* lines 86-124: the result built from what the collaborator did
ValidationResult(o) ==
    CASE o.exc = NoException /\ o.alive ->
            [valid |-> TRUE, live |-> TRUE, error |-> NoError]
      [] o.exc = NoException /\ ~o.alive ->
            [valid |-> TRUE, live |-> FALSE, error |-> "Stream is not currently live"]
      [] o.exc.class = "InvalidVideoIdException" ->
            [valid |-> FALSE, live |-> FALSE, error |-> "Invalid video ID"]
      [] OTHER ->
            IF IsSignalError(o.exc.str)
            THEN [valid |-> TRUE, live |-> TRUE, error |-> NoError]
            ELSE [valid |-> FALSE, live |-> FALSE,
                  error |-> "Validation error: " \o Join(o.exc.str)]

\* a clean-up placed at the end of the try block: skipped when is_alive() raises
TerminateCallsNoFinally(o) == IF o.created /\ o.exc = NoException THEN 1 ELSE 0

\* lines 126-132: the terminate() calls made on the connection of this call
TerminateCalls(o) == IF o.created THEN 1 ELSE 0

\* lines 129-132: whether what terminate() raises leaves validate_livestream
ReleaseEscapes(o) == FALSE

\* _cache_timeout = 60
cache_timeout == 60

\* a validator that never looks into its cache
IsFreshNever(cache, video_id, t) == FALSE

\* a cache whose entries are good up to and including the 60th second
IsFreshInclusive(cache, video_id, t) ==
    /\ cache[video_id] # NoEntry
    /\ t - cache[video_id][2] <= cache_timeout

\* lines 79-81: there is an entry for the id and it is younger than the timeout
IsFresh(cache, video_id, t) ==
    /\ cache[video_id] # NoEntry
    /\ t - cache[video_id][2] < cache_timeout

\* what validate_livestream hands back, with what it did to the collaborator
\* during the call
ValidateReturn(video_id, value, raised, invoked, o) ==
    [op |-> "validate_livestream", arg |-> video_id, value |-> value,
     raised |-> raised, create_calls |-> IF invoked THEN 1 ELSE 0,
     terminate_calls |-> IF invoked THEN TerminateCalls(o) ELSE 0,
     collaborator |-> IF invoked THEN o ELSE << >>,
     time |-> now, previous |-> last_validate]

\* lines 70-75: no video id
ValidateNoVideoId ==
    /\ ret' = ValidateReturn("", NoVideoIdResult, FALSE, FALSE, << >>)
    /\ UNCHANGED << engine, buffer_lock, threads, caller, starts, now, alive, feed,
                    fetched, terminate_calls, appended, validator, query >>

\* a cache whose entries are stamped anew when they are served
ValidateCachedRenews ==
    /\ \E video_id \in CacheKeys :
        /\ IsFresh(validation_cache, video_id, now)
        /\ ret' = ValidateReturn(video_id, validation_cache[video_id][1],
                                 FALSE, FALSE, << >>)
        /\ last_validate' = [video_id |-> video_id, time |-> now,
                             value |-> validation_cache[video_id][1]]
        /\ validation_cache' = [validation_cache EXCEPT ![video_id][2] = now]
    /\ UNCHANGED << engine, buffer_lock, threads, caller, starts, now, alive, feed,
                    fetched, terminate_calls, appended, query >>

\* lines 77-82: the cached result is served
ValidateCached ==
    /\ \E video_id \in CacheKeys :
        /\ IsFresh(validation_cache, video_id, now)
        /\ ret' = ValidateReturn(video_id, validation_cache[video_id][1],
                                 FALSE, FALSE, << >>)
        /\ last_validate' = [video_id |-> video_id, time |-> now,
                             value |-> validation_cache[video_id][1]]
    /\ UNCHANGED << engine, buffer_lock, threads, caller, starts, now, alive, feed,
                    fetched, terminate_calls, appended, validation_cache, query >>

\* a validator that caches only what it found out, not what went wrong
ValidateFreshCachesSuccess ==
    /\ \E video_id \in CacheKeys, o \in Outcomes :
        /\ ~IsFresh(validation_cache, video_id, now)
        /\ validation_cache' =
              IF ValidationResult(o).valid
              THEN [validation_cache EXCEPT ![video_id] = << ValidationResult(o), now >>]
              ELSE validation_cache
        /\ ret' = ValidateReturn(video_id, ValidationResult(o), ReleaseEscapes(o),
                                 TRUE, o)
        /\ last_validate' = [video_id |-> video_id, time |-> now,
                             value |-> ValidationResult(o)]
    /\ UNCHANGED << engine, buffer_lock, threads, caller, starts, now, alive, feed,
                    fetched, terminate_calls, appended, query >>

\* lines 77-137: no entry or a stale one: ask the collaborator, release the
\* connection, store the result with the time read at line 78
ValidateFresh ==
    /\ \E video_id \in CacheKeys, o \in Outcomes :
        /\ ~IsFresh(validation_cache, video_id, now)
        /\ validation_cache' =
              [validation_cache EXCEPT ![video_id] = << ValidationResult(o), now >>]
        /\ ret' = ValidateReturn(video_id, ValidationResult(o), ReleaseEscapes(o),
                                 TRUE, o)
        /\ last_validate' = [video_id |-> video_id, time |-> now,
                             value |-> ValidationResult(o)]
    /\ UNCHANGED << engine, buffer_lock, threads, caller, starts, now, alive, feed,
                    fetched, terminate_calls, appended, query >>

ValidateLivestream ==
    \/ ValidateNoVideoId
    \/ ValidateCached
    \/ ValidateFresh

\* a clear_cache that forgets `global`: the module's dict stays as it is
ClearCacheLocal ==
    /\ ret' = [op |-> "clear_cache", raised |-> FALSE]
    /\ UNCHANGED << engine, buffer_lock, threads, caller, starts, now, alive, feed,
                    fetched, terminate_calls, appended, validator, query >>

\* lines 140-145
ClearCache ==
    /\ validation_cache' = EmptyCache
    /\ ret' = [op |-> "clear_cache", raised |-> FALSE]
    /\ UNCHANGED << engine, buffer_lock, threads, caller, starts, now, alive, feed,
                    fetched, terminate_calls, appended, last_validate, query >>

\* the seconds that pass between two calls into the validator
Waits == { 59, 60 }

\* time passes
Elapse ==
    /\ \E d \in Waits :
        /\ now + d <= MaxClock
        /\ now' = now + d
    /\ Silent
    /\ UNCHANGED << engine, buffer_lock, threads, caller, starts, alive, feed,
                    fetched, terminate_calls, appended, validator, query >>

\* ------------------------------------------------------------------------
\* parse_youtube_url (url_validator.py, lines 16-51)
\* ------------------------------------------------------------------------

\* the characters str.strip() removes
Whitespace == { " ", "\t", "\n" }

Digits10 == { "0", "1", "2", "3", "4", "5", "6", "7", "8", "9" }

\* [A-Za-z0-9_-]
IsIdChar(c) ==
    \/ \E i \in 1..26 : c = UpperCase[i] \/ c = LowerCase[i]
    \/ c \in Digits10
    \/ c \in { "_", "-" }

\* [A-Za-z0-9_-]{n} at position i of s
IdCharsAt(s, i, n) ==
    /\ i + n - 1 <= Len(s)
    /\ \A j \in i..(i + n - 1) : IsIdChar(s[j])

\* a parser that matches the input as it came
StripNothing(s) == s

\* str.strip(): the text between the first and the last character that is not
\* whitespace
Strip(s) ==
    LET kept == { i \in 1..Len(s) : s[i] \notin Whitespace }
    IN  IF kept = { } THEN << >>
        ELSE SubSeq(s, CHOOSE i \in kept : \A j \in kept : i <= j,
                       CHOOSE i \in kept : \A j \in kept : j <= i)

\* the length of a video id
IdLength == 11

\* re.match(r'^[A-Za-z0-9_-]{11}$', url): `$` also matches before a newline
\* that ends the string
MatchesVideoId(url) ==
    /\ IdCharsAt(url, 1, IdLength)
    /\ \/ Len(url) = IdLength
       \/ Len(url) = IdLength + 1 /\ url[IdLength + 1] = "\n"

\* the positions at which re.search finds marker followed by 11 id characters
MarkerMatches(marker, url) ==
    { i \in 1..Len(url) :
        /\ i + Len(marker) - 1 <= Len(url)
        /\ SubSeq(url, i, i + Len(marker) - 1) = marker
        /\ IdCharsAt(url, i + Len(marker), IdLength) }

\* match.group(1) of the leftmost match
GroupAfter(marker, url) ==
    LET i == CHOOSE i \in MarkerMatches(marker, url) :
                 \A j \in MarkerMatches(marker, url) : i <= j
    IN  SubSeq(url, i + Len(marker), i + Len(marker) + IdLength - 1)

\* youtube\.com/watch\?v=
WatchMarker == << "y", "o", "u", "t", "u", "b", "e", ".", "c", "o", "m", "/", "w",
                  "a", "t", "c", "h", "?", "v", "=" >>

\* youtu\.be/
ShortMarker == << "y", "o", "u", "t", "u", ".", "b", "e", "/" >>

\* return None
None == [is_none |-> TRUE]

\* return <a string>
Returned(str) == [is_none |-> FALSE, str |-> str]

\* lines 32-51
parse_youtube_url(url) ==
    IF url = << >> THEN None
    ELSE LET stripped == Strip(url)
         IN  CASE MatchesVideoId(stripped) -> Returned(stripped)
               [] MarkerMatches(WatchMarker, stripped) # { } ->
                     Returned(GroupAfter(WatchMarker, stripped))
               [] MarkerMatches(ShortMarker, stripped) # { } ->
                     Returned(GroupAfter(ShortMarker, stripped))
               [] OTHER -> None

\* whitespace around the input
Paddings ==
    { << >>,
      << " ", " " >>,
      << " ", "\n" >> }

\* what the input starts with
Schemes ==
    { << >>,
      << "h", "t", "t", "p", "s", ":", "/", "/" >>,
      << "h", "t", "t", "p", ":", "/", "/" >> }

\* the subdomain, if any
Subdomains ==
    { << >>,
      << "w", "w", "w", "." >> }

\* what comes before the token: nothing, the two URL shapes, the long one in
\* capitals, the long one with another parameter before v=, another site
WatchShape == WatchMarker

ShortShape == ShortMarker

\* the shapes of the input
Shapes ==
    { << >>, WatchShape, ShortShape,
      << "Y", "O", "U", "T", "U", "B", "E", ".", "C", "O", "M", "/", "w",
         "a", "t", "c", "h", "?", "v", "=" >>,
      << "y", "o", "u", "t", "u", "b", "e", ".", "c", "o", "m", "/", "w",
         "a", "t", "c", "h", "?", "t", "=", "1", "&", "v", "=" >>,
      << "g", "o", "o", "g", "l", "e", ".", "c", "o", "m", "/", "s", "e",
         "a", "r", "c", "h", "?", "q", "=" >> }

\* two video ids
GoodTokens ==
    { << "d", "Q", "w", "4", "w", "9", "W", "g", "X", "c", "Q" >>,
      << "a", "_", "b", "-", "c", "_", "d", "-", "e", "_", "0" >> }

\* tokens that are no video id: too short, too long, a character outside the
\* pattern, nothing
BadTokens ==
    { << "d", "Q", "w", "4", "w", "9", "W", "g", "X", "c" >>,
      << "d", "Q", "w", "4", "w", "9", "W", "g", "X", "c", "Q", "Z" >>,
      << "d", "Q", "w", "4", "w", "!", "W", "g", "X", "c", "Q" >>,
      << "a", "b", "c", "1", "2", "3" >>,
      << >> }

\* what follows the token
Suffixes ==
    { << >>,
      << "&", "t", "=", "4", "2", "s" >> }

\* the inputs parse_youtube_url is called with, in parts
ParseInputs ==
    [before : Paddings, scheme : Schemes, subdomain : Subdomains, shape : Shapes,
     token : GoodTokens \cup BadTokens, suffix : Suffixes, after : Paddings]

\* the string the parts spell
UrlOf(parts) ==
    parts.before \o parts.scheme \o parts.subdomain \o parts.shape \o parts.token
        \o parts.suffix \o parts.after

ParseYoutubeUrl ==
    /\ \E parts \in ParseInputs :
        ret' = [op |-> "parse_youtube_url", parts |-> parts, arg |-> UrlOf(parts),
                value |-> parse_youtube_url(UrlOf(parts)), raised |-> FALSE]
    /\ UNCHANGED << engine, buffer_lock, threads, caller, starts, now, alive, feed,
                    fetched, terminate_calls, appended, validator, query >>

\* ------------------------------------------------------------------------
\* The results screen (ui.py, lines 694-770)
\* ------------------------------------------------------------------------

\* the screen without a message card
NoCard == [shown |-> FALSE]

\* strings.py line 104
RESULTS_LATEST_MESSAGE == "Latest message:"

\* ui.py lines 730-767: the message card _display_results puts on the screen
display_results(matches) ==
    IF matches # << >>
    THEN [shown |-> TRUE, header |-> RESULTS_LATEST_MESSAGE,
          text |-> matches[1].message, timestamp |-> matches[1].timestamp]
    ELSE NoCard

\* ui.py lines 696-716: the name typed is stripped and must not be empty;
\* search_worker searches for it and hands the matches to _display_results
PerformSearch(args) ==
    /\ buffer_lock = 0
    /\ \E typed \in args :
        LET username == Strip(typed)
            matches == search_by_username(buffer, username)
        IN  /\ username # << >>
            /\ ret' = [op |-> "perform_search", arg |-> username, matches |-> matches,
                       card |-> display_results(matches), raised |-> FALSE]
    /\ UNCHANGED << engine, buffer_lock, threads, caller, starts, now, alive,
                    outside, fetched, terminate_calls, appended >>

\* ------------------------------------------------------------------------
\* The environment
\* ------------------------------------------------------------------------

\* the wall clock moves on
Tick ==
    /\ now < MaxTime
    /\ now' = now + 1
    /\ Silent
    /\ UNCHANGED << engine, buffer_lock, threads, caller, starts, alive, outside,
                    fetched, terminate_calls, appended >>

\* the stream ends or the connection is lost: is_alive() answers False from now on
StreamEnds ==
    /\ alive
    /\ alive' = FALSE
    /\ Silent
    /\ UNCHANGED << engine, buffer_lock, threads, caller, starts, now, outside,
                    fetched, terminate_calls, appended >>

\* ------------------------------------------------------------------------
\* Specifications
\* ------------------------------------------------------------------------

\* any sequence of start and stop calls on one instance, against the workers
\* they launch, on a connection that does not fail
Next ==
    \/ StartBuffering
    \/ StopBuffering
    \/ \E w \in ThreadIds : WorkerStep(w)
    \/ StreamEnds

Spec == Init /\ [][Next]_vars

\* ui.py lines 591-592: the application starts each engine instance once
StartBufferingOnce == starts = 0 /\ StartBuffering

\* one session: a single start, a worker on a connection that may fail at any
\* call, the caller reading the statistics and stopping, the clock moving
NextSession ==
    \/ StartBufferingOnce
    \/ StopBuffering
    \/ GetBufferStats
    \/ \E w \in ThreadIds : WorkerStep(w)
    \/ \E w \in ThreadIds : WorkerRaises(w)
    \/ Tick
    \/ StreamEnds

SpecSession == Init /\ [][NextSession]_vars

\* every worker thread keeps running: the scheduler serves it, and each call it
\* makes into the collaborator (is_alive, get, sleep) comes back
Fairness == \A w \in ThreadIds : WF_vars(WorkerStep(w) \/ WorkerRaises(w))

SpecSessionLive == Init /\ [][NextSession]_vars /\ Fairness

\* one session watched for the end of the stream: a single start, a worker on
\* a connection that may fail at any call and whose stream may end, the caller
\* asking is_stream_ended() and stopping; the worker thread keeps running
NextStreamEnd ==
    \/ StartBufferingOnce
    \/ StopBuffering
    \/ IsStreamEnded
    \/ \E w \in ThreadIds : WorkerStep(w)
    \/ \E w \in ThreadIds : WorkerRaises(w)
    \/ StreamEnds

SpecStreamEndLive == Init /\ [][NextStreamEnd]_vars /\ Fairness

\* an instance started, stopped and, once its worker has ended, started again
\* on a live stream while the clock moves
NextRestart ==
    \/ (\A w \in ThreadIds : ~ThreadAlive(w)) /\ StartBufferingLive
    \/ StopBuffering
    \/ \E w \in ThreadIds : WorkerStep(w)
    \/ Tick

SpecRestart == Init /\ [][NextRestart]_vars

\* the error message watched: starts that fail at is_alive() or succeed, each
\* made when no worker is running, a worker on a live connection whose get()
\* may fail, stops, and the caller asking get_error_message()
NextError ==
    \/ (\A w \in ThreadIds : ~ThreadAlive(w)) /\ StartBufferingLive
    \/ (\A w \in ThreadIds : ~ThreadAlive(w)) /\ StartBufferingAliveRaises
    \/ StopBuffering
    \/ GetErrorMessage
    \/ \E w \in ThreadIds : WorkerStep(w)
    \/ \E w \in ThreadIds : FetchRaises(w)
    \/ \E w \in ThreadIds : BackoffDone(w)

SpecError == Init /\ [][NextError]_vars

\* the validator on its own: any sequence of validate_livestream and
\* clear_cache calls, with time passing between them
NextValidate ==
    \/ ValidateLivestream
    \/ ClearCache
    \/ Elapse

SpecValidate == Init /\ [][NextValidate]_vars

\* the parser on its own: one call, on any of the inputs
NextParse == ret = NoReturn /\ ParseYoutubeUrl

SpecParse == Init /\ [][NextParse]_vars

\* the lock: one worker on a connection that may fail at any call, and a
\* thread that queries the buffer step by step while the clock moves
NextLock ==
    \/ starts = 0 /\ StartBufferingLive
    \/ QueryCall
    \/ QueryAcquire
    \/ QueryRelease
    \/ \E w \in ThreadIds : WorkerStep(w)
    \/ \E w \in ThreadIds : WorkerRaises(w)
    \/ Tick

\* a thread that runs, holding the lock or able to take it, goes on: the
\* append under the lock ends, a query that has the lock finishes, and a query
\* that waits gets the lock if it keeps becoming free. Nothing is assumed of
\* the worker's calls into the connection or of its sleeps.
LockFairness ==
    /\ \A w \in ThreadIds : WF_vars(ItemAppend(w))
    /\ WF_vars(QueryRelease)
    /\ SF_vars(QueryAcquire)

SpecLockLive == Init /\ [][NextLock]_vars /\ LockFairness

\* the needle the capacity scenario searches for
FillArgs == { << "2", "0", "1" >> }

\* one worker fills the deque beyond its capacity from the long stream while
\* the caller queries and stops
NextFill ==
    \/ starts = 0 /\ StartBufferingLive
    \/ StopBuffering
    \/ GetBufferStats
    \/ SearchBuffer(FillArgs)
    \/ \E w \in ThreadIds : WorkerStep(w)

SpecFill == InitFill /\ [][NextFill]_vars

\* one worker buffers whatever the mixed stream delivers while the caller
\* searches
NextQuery ==
    \/ starts = 0 /\ StartBufferingLive
    \/ SearchBuffer(SearchArgs)
    \/ SearchByUsername(SearchArgs)
    \/ \E w \in ThreadIds : WorkerStep(w)

SpecQuery == InitQuery /\ [][NextQuery]_vars

\* one worker buffers whatever the mixed stream delivers while the user
\* searches for a name and looks at the results screen
NextResults ==
    \/ starts = 0 /\ StartBufferingLive
    \/ PerformSearch(SearchArgs)
    \/ \E w \in ThreadIds : WorkerStep(w)

SpecResults == InitQuery /\ [][NextResults]_vars

\* ------------------------------------------------------------------------
\* Properties
\* ------------------------------------------------------------------------

Min(a, b) == IF a <= b THEN a ELSE b

C3_NothingEvicted == buffer = appended

\* the positions of the buffer whose message satisfies P
Positions(buf, P(_)) == { i \in 1..Len(buf) : P(buf[i]) }

\* the k-th smallest member of a set of positions
Kth(S, k) == CHOOSE i \in S : Cardinality({ j \in S : j < i }) = k - 1

\* r lists exactly the messages of buf at the positions S, in buffer order
ListsExactly(r, buf, S) ==
    /\ Len(r) = Cardinality(S)
    /\ \A k \in 1..Len(r) : r[k] = buf[Kth(S, k)]

\* two characters that are the same letter
SameLetter(c, d) == c = d \/ { c, d } \in { { "a", "A" }, { "b", "B" } }

\* two strings equal up to the case of their letters
EqualIgnoringCase(a, b) ==
    /\ Len(a) = Len(b)
    /\ \A i \in 1..Len(a) : SameLetter(a[i], b[i])

\* text = prefix + needle + suffix for some prefix and suffix
IsSubstring(needle, text) ==
    \E i \in 0..Len(text) :
        /\ i + Len(needle) <= Len(text)
        /\ SubSeq(text, i + 1, i + Len(needle)) = needle

\* C4: search_by_username(name) returns exactly the buffered messages whose
\* stored author equals name up to case (the whole name, not a part of it),
\* oldest first; on an empty buffer it returns the empty list.
C4_SearchByAuthorExact ==
    ret.op = "search_by_username" =>
        ListsExactly(ret.value, buffer,
                     Positions(buffer, LAMBDA m : EqualIgnoringCase(m.author, ret.arg)))

\* the search for "a" skips the oldest message, of author "ab", and returns
\* the two later ones, stored under "A" and "a", oldest first
C4_Witness ==
    /\ ret.op = "search_by_username"
    /\ ret.arg = << "a" >>
    /\ Len(buffer) = 3
    /\ buffer[1].author = << "a", "b" >>
    /\ buffer[2].author = << "A" >>
    /\ buffer[3].author = << "a" >>
    /\ ret.value = << buffer[2], buffer[3] >>

\* C5: search_buffer(needle) returns exactly the buffered messages whose text
\* contains needle as a case-sensitive substring, oldest first; the author is
\* not looked at, and on an empty buffer the result is the empty list.
C5_SearchByTextSubstring ==
    ret.op = "search_buffer" =>
        ListsExactly(ret.value, buffer,
                     Positions(buffer, LAMBDA m : IsSubstring(ret.arg, m.message)))

\* the search for "a" skips the oldest message, "A" of author "ab", and
\* returns the two later ones, "baB" and "ab", oldest first
C5_Witness ==
    /\ ret.op = "search_buffer"
    /\ ret.arg = << "a" >>
    /\ Len(buffer) = 3
    /\ buffer[1].message = << "A" >>
    /\ buffer[1].author = << "a", "b" >>
    /\ buffer[2].message = << "b", "a", "B" >>
    /\ buffer[3].message = << "a", "b" >>
    /\ ret.value = << buffer[2], buffer[3] >>

\* C6 as claimed: get_buffer_stats() returns the buffer length as message_count
\* and a time_span_seconds that is 0.0 exactly when no message has ever been
\* captured, and first_message_time is None if and only if the buffer is empty.
C6_SpanZeroIffNothingCaptured ==
    /\ ret.op = "get_buffer_stats" =>
          /\ ret.value.message_count = Len(buffer)
          /\ ret.value.time_span_seconds = 0 <=> appended = << >>
    /\ first_message_time = NoTime <=> buffer = << >>

\* C6 as amended: get_buffer_stats() returns the buffer length as message_count;
\* time_span_seconds is 0.0 whenever no message has ever been captured, and
\* otherwise the time elapsed since first_message_time, which is 0.0 again as
\* long as the clock still reads what it read at the first append;
\* first_message_time is None if and only if the buffer is empty.
C6_SpanZeroIfNothingCaptured ==
    /\ ret.op = "get_buffer_stats" =>
          /\ ret.value.message_count = Len(buffer)
          /\ appended = << >> => ret.value.time_span_seconds = 0
          /\ appended # << >> =>
                /\ ret.value.time_span_seconds = now - first_message_time
                /\ ret.value.time_span_seconds >= 0
    /\ first_message_time = NoTime <=> buffer = << >>

\* the statistics of an engine that was never started, read after the clock
\* has moved
C6_Witness ==
    /\ ret.op = "get_buffer_stats"
    /\ starts = 0
    /\ now > 0
    /\ ret.value = [message_count |-> 0, time_span_seconds |-> 0]

\* no worker thread of the instance is running
NoWorkerRunning == \A w \in ThreadIds : ~ThreadAlive(w)

\* C7: stop_buffering() never raises, whether called twice in a row, on an
\* engine never started or after the worker has ended (also when terminate()
\* raises); when it returns the stop flag is set, and while the flag stays set
\* every worker whose calls into the collaborator return ends.
C7_StopTotalAndFinal ==
    /\ [](ret.op = "stop_buffering" => ~ret.raised /\ stop_flag /\ caller = "idle")
    /\ stop_flag ~> (NoWorkerRunning \/ ~stop_flag)

\* a second stop in a row has returned, terminate() raised in it, and the
\* worker had ended before the first one, its retries used up
C7_Witness ==
    /\ ret.op = "stop_buffering"
    /\ ret.terminate_raised
    /\ chat = 1
    /\ terminate_calls[1] = 2
    /\ threads[1].pc = "done"
    /\ error_message = LostMessage
    /\ stop_flag

\* C8: when is_alive() answers False on the connection passed to or created by
\* start_buffering(), the call returns False, sets error_message, launches no
\* thread and leaves stop_flag, stream_ended_flag and the buffer as they were.
C8_NotLiveFailsFast ==
    [][(ret'.op = "start_buffering" /\ ret'.is_alive = "False") =>
          /\ ret'.value = FALSE
          /\ ~ret'.raised
          /\ error_message' = "Stream is not live"
          /\ threads' = threads
          /\ worker_thread' = worker_thread
          /\ stop_flag' = stop_flag
          /\ stream_ended_flag' = stream_ended_flag
          /\ buffer' = buffer]_vars

\* a start on a stream that has ended, after a stopped session that buffered a
\* message: the flags set by that session are still set
C8_Witness ==
    /\ ret.op = "start_buffering"
    /\ ret.is_alive = "False"
    /\ ret.chat_object = "created"
    /\ stop_flag
    /\ stream_ended_flag
    /\ Len(buffer) = 1
    /\ starts = 2
    /\ worker_thread = 1

\* C9: start_buffering() never raises: InvalidVideoIdException from
\* pytchat.create gives False with error_message 'Invalid video ID', any other
\* exception, from pytchat.create or from is_alive(), gives False with
\* 'Failed to connect: <description>', and in both cases no thread is launched.
C9_StartNeverRaises ==
    [][ret'.op = "start_buffering" =>
          /\ ~ret'.raised
          /\ ret'.chat_object = "InvalidVideoIdException" =>
                /\ ret'.value = FALSE
                /\ error_message' = "Invalid video ID"
                /\ threads' = threads /\ worker_thread' = worker_thread
          /\ ret'.chat_object \in ErrDescs =>
                /\ ret'.value = FALSE
                /\ error_message' = "Failed to connect: " \o ret'.chat_object
                /\ threads' = threads /\ worker_thread' = worker_thread
          /\ ret'.is_alive \in ErrDescs =>
                /\ ret'.value = FALSE
                /\ error_message' = "Failed to connect: " \o ret'.is_alive
                /\ threads' = threads /\ worker_thread' = worker_thread]_vars

\* is_alive() raised in a second start while the worker of the first is running
C9_Witness ==
    /\ ret.op = "start_buffering"
    /\ ret.is_alive \in ErrDescs
    /\ error_message = "Failed to connect: timed out"
    /\ starts = 2
    /\ worker_thread = 1
    /\ ThreadAlive(1)

\* the worker threads start_buffering has launched so far
Launched == { w \in ThreadIds : threads[w].pc # "unborn" }

\* C10: over any sequence of start and stop calls one instance launches a
\* single polling thread, so two polling threads of the instance are never
\* alive together.
C10_SinglePollingTask ==
    /\ Cardinality(Launched) <= 1
    /\ Cardinality({ w \in ThreadIds : ThreadAlive(w) }) <= 1

\* the instance has left RUNNING: a worker was launched and every launched
\* worker has ended (stop observed, stream ended, or retries used up)
Terminal == Launched # { } /\ NoWorkerRunning

\* C11: STOPPED, STREAM_ENDED and FAILED are terminal: once the worker of an
\* instance has ended, no operation on the instance, a further
\* start_buffering() included, makes a worker run again or appends a message.
C11_TerminalStatesFinal ==
    [][Terminal => (NoWorkerRunning' /\ appended' = appended)]_vars

\* C12: stop_flag and stream_ended_flag are latched: once either is set, no
\* step of the instance (start, stop, worker, query) clears it.
C12_FlagsLatched ==
    [][/\ stop_flag => stop_flag'
       /\ stream_ended_flag => stream_ended_flag']_vars

\* a step in which worker w gets False from is_alive(): it leaves the check
\* with its failure counter untouched
SeesNotAlive(w) ==
    /\ threads[w].pc = "check"
    /\ ~alive
    /\ threads'[w] # threads[w]
    /\ threads'[w].reconnect_attempts = threads[w].reconnect_attempts

\* what the worker does on a dead connection, and what follows from it
StreamEndHandled ==
    /\ [][\A w \in ThreadIds :
            SeesNotAlive(w) => stream_ended_flag' /\ threads'[w].pc = "done"]_vars
    /\ [][stream_ended_flag => appended' = appended]_vars
    /\ [](ret.op = "is_stream_ended" => ret.value = stream_ended_flag)

\* C13 as claimed: a worker that sees the connection not alive sets
\* stream_ended_flag and leaves its loop, no message is appended from then on,
\* and once the connection is not alive while the worker is running,
\* is_stream_ended() eventually returns True.
C13_StreamEndAlwaysObserved ==
    /\ StreamEndHandled
    /\ (~alive /\ ~NoWorkerRunning) ~> stream_ended_flag

\* C13 as amended: a worker that sees the connection not alive sets
\* stream_ended_flag and leaves its loop, no message is appended from then on,
\* and once the connection is not alive while the worker is running,
\* is_stream_ended() eventually returns True unless a stop is requested or the
\* retries are used up before the worker gets False from is_alive().
C13_StreamEndObservedUnlessStopped ==
    /\ StreamEndHandled
    /\ (~alive /\ ~NoWorkerRunning) ~>
          (stream_ended_flag \/ stop_flag \/ error_message = LostMessage)

\* the worker buffered a message, found the connection dead and ended, no stop
\* was requested, and is_stream_ended() has just answered True
C13_Witness ==
    /\ ret.op = "is_stream_ended"
    /\ ret.value = TRUE
    /\ ~alive
    /\ ~stop_flag
    /\ threads[1].pc = "done"
    /\ Len(appended) > 0

\* C14: on its k-th consecutive failure (k = 1, 2, 3) the worker sets
\* error_message to 'Connection error, retrying... (k/3)', sleeps 2^(k-1)
\* seconds and then goes on with the loop on the same connection object; no
\* step of a worker assigns self.chat.
C14_RetryWithBackoff ==
    /\ [](\A w \in ThreadIds :
            threads[w].pc = "backoff" =>
                LET k == threads[w].reconnect_attempts
                IN  /\ k \in 1..3
                    /\ error_message =
                          "Connection error, retrying... (" \o ToString(k) \o "/3)"
                    /\ threads[w].backoff_time = 2 ^ (k - 1))
    /\ [][\A w \in ThreadIds :
            /\ (threads[w].pc = "backoff" /\ threads'[w] # threads[w]) =>
                  threads'[w].pc = "loop"
            /\ (ThreadAlive(w) /\ threads'[w] # threads[w]) => chat' = chat]_vars

\* the worker sleeps 4 seconds after its third failure in a row
C14_Witness ==
    /\ threads[1].pc = "backoff"
    /\ threads[1].reconnect_attempts = 3
    /\ threads[1].backoff_time = 4
    /\ error_message = "Connection error, retrying... (3/3)"
    /\ chat = 1

\* C15 as claimed: the worker makes at most 3 failed attempts in a row: the
\* third consecutive failure sets error_message to 'Connection lost after 3
\* attempts' and ends the loop with stream_ended_flag clear, so that a fourth
\* failing attempt in a row is never made.
C15_GivesUpOnThirdFailure ==
    \A w \in ThreadIds :
        LET k == threads[w].reconnect_attempts
        IN  /\ k <= 3
            /\ k = 3 => /\ threads[w].pc = "done"
                        /\ error_message = "Connection lost after 3 attempts"
                        /\ ~stream_ended_flag

\* C15 as amended: the worker retries after each of 3 failures in a row and
\* gives up on the fourth: exactly then it sets error_message to 'Connection
\* lost after 3 attempts' and ends the loop for good with stream_ended_flag
\* clear, so that a fifth failing attempt in a row is never made.
C15_GivesUpOnFourthFailure ==
    /\ \A w \in ThreadIds :
        LET k == threads[w].reconnect_attempts
        IN  /\ k <= 4
            /\ k = 4 => /\ threads[w].pc = "done"
                        /\ error_message = "Connection lost after 3 attempts"
                        /\ ~stream_ended_flag
    /\ error_message = "Connection lost after 3 attempts" =>
          \E w \in ThreadIds : threads[w].reconnect_attempts = 4

\* the worker has ended on its fourth failure in a row, nobody asked it to stop
C15_Witness ==
    /\ threads[1].pc = "done"
    /\ threads[1].reconnect_attempts = 4
    /\ threads[1].backoff_time = 8
    /\ error_message = "Connection lost after 3 attempts"
    /\ ~stop_flag
    /\ ~stream_ended_flag

\* C16: a loop iteration that succeeds resets the retry state and buffering
\* goes on: each message of the fetch is appended in turn, and when none is
\* left the failure counter is 0 and the backoff 1 second again, whatever they
\* were, the worker pauses and returns to the loop head, and the next failure
\* is the first again: message '(1/3)', 1 second of sleep.
C16_SuccessResetsRetries ==
    [][\A w \in ThreadIds :
         /\ (threads[w].pc = "items" /\ threads'[w].pc = "append") =>
               threads'[w].msg_dict.message = Head(threads[w].batch).text
         /\ (threads[w].pc = "append" /\ threads'[w] # threads[w]) =>
               /\ appended' = Append(appended, threads[w].msg_dict)
               /\ buffer'[Len(buffer')] = threads[w].msg_dict
         /\ (threads[w].pc = "items" /\ threads'[w].pc = "pause") =>
               /\ threads[w].batch = << >>
               /\ threads'[w].reconnect_attempts = 0
               /\ threads'[w].backoff_time = 1
         /\ (threads[w].pc = "pause" /\ threads'[w] # threads[w]) =>
               threads'[w].pc = "loop"
         /\ (threads[w].reconnect_attempts = 0 /\ threads[w].pc # "backoff"
                /\ threads'[w].pc = "backoff") =>
               /\ error_message' = "Connection error, retrying... (1/3)"
               /\ threads'[w].reconnect_attempts = 1
               /\ threads'[w].backoff_time = 1]_vars

\* a fetch that brought messages has succeeded after three failures in a row:
\* the last retry message is still there, the counters are reset and the
\* worker is on its way to the next iteration
C16_Witness ==
    /\ threads[1].pc = "pause"
    /\ threads[1].reconnect_attempts = 0
    /\ threads[1].backoff_time = 1
    /\ error_message = "Connection error, retrying... (3/3)"
    /\ Len(appended) >= 2
    /\ ~stop_flag

\* where a thread that runs _buffer_loop can be: not started, at one of the
\* statements of the loop, or returned
LoopPositions ==
    { "unborn", "loop", "check", "fetch", "items", "append", "pause", "backoff", "done" }

\* C17: no exception leaves _buffer_loop: whatever is_alive(), get() or the
\* reading of a fetched message raises becomes a retry message with a backoff
\* sleep or the final message with the end of the loop, and the thread only
\* ever ends by returning: stop_flag seen at the loop head, the stream found
\* ended, or the retries used up.
C17_LoopNeverRaises ==
    /\ [](\A w \in ThreadIds : threads[w].pc \in LoopPositions)
    /\ [][\A w \in ThreadIds :
            /\ threads'[w].reconnect_attempts > threads[w].reconnect_attempts =>
                  \/ /\ threads'[w].pc = "backoff"
                     /\ error_message' \in
                           { "Connection error, retrying... (" \o ToString(k) \o "/3)" :
                                k \in 1..3 }
                  \/ /\ threads'[w].pc = "done"
                     /\ error_message' = "Connection lost after 3 attempts"
            /\ (ThreadAlive(w) /\ ~ThreadAlive(w)') =>
                  \/ threads[w].pc = "loop" /\ stop_flag
                  \/ threads[w].pc = "check" /\ ~alive /\ stream_ended_flag'
                  \/ error_message' = "Connection lost after 3 attempts"]_vars

\* the worker has returned with its retries used up, one of the failures being
\* an exception while a fetched message was read: that message is lost
C17_Witness ==
    /\ threads[1].pc = "done"
    /\ error_message = "Connection lost after 3 attempts"
    /\ fetched > Len(appended)
    /\ Len(appended) >= 1
    /\ ~stop_flag
    /\ alive

\* C18: stop_buffering() works in a fixed order: it sets stop_flag first, then
\* joins the worker thread if that is alive, and calls chat.terminate() only
\* when the join has returned (the thread ended or the timeout ran out); the
\* join is skipped only when there is no live worker, and what terminate()
\* raises never leaves stop_buffering().
C18_StopInOrder ==
    /\ [](caller # "idle" => stop_flag)
    /\ [][/\ (caller = "idle" /\ caller' # "idle") =>
                /\ stop_flag'
                /\ terminate_calls' = terminate_calls
                /\ caller' = "terminate" =>
                      ~(worker_thread # 0 /\ ThreadAlive(worker_thread))
          /\ caller = "join" =>
                /\ terminate_calls' = terminate_calls
                /\ caller' \in { "join", "terminate" }
          /\ terminate_calls' # terminate_calls => caller = "terminate"
          /\ ret'.op = "stop_buffering" =>
                /\ caller = "terminate"
                /\ caller' = "idle"
                /\ ~ret'.raised]_vars

\* stop_buffering() has returned after a join that timed out, the worker still
\* being busy, and terminate() raised in it
C18_Witness ==
    /\ ret.op = "stop_buffering"
    /\ ret.terminate_raised
    /\ ~ret.raised
    /\ terminate_calls[1] = 1
    /\ worker_thread = 1
    /\ ThreadAlive(1)
    /\ stop_flag

\* C19: cancellation is cooperative, the flag being read once per iteration: a
\* worker begins a fetch only after a liveness check, and a liveness check only
\* after finding stop_flag clear at the loop head, so that at most the fetch of
\* the iteration under way follows the setting of the flag; finding it set, the
\* worker returns. No step of stop_buffering() touches a thread, its join can
\* always return, and a worker whose calls return ends once the flag is set.
C19_CooperativeCancellation ==
    /\ [][\A w \in ThreadIds :
            /\ (threads[w].pc # "fetch" /\ threads'[w].pc = "fetch") =>
                  threads[w].pc = "check"
            /\ (threads[w].pc # "check" /\ threads'[w].pc = "check") =>
                  threads[w].pc = "loop" /\ ~stop_flag
            /\ (threads[w].pc = "loop" /\ stop_flag /\ threads'[w] # threads[w]) =>
                  threads'[w].pc = "done"
            /\ caller' # caller => threads' = threads]_vars
    /\ [](caller = "join" => ENABLED (StopJoined \/ StopJoinTimeout))
    /\ stop_flag ~> (NoWorkerRunning \/ ~stop_flag)

\* stop_buffering() has returned while the worker is still inside the fetch it
\* had begun: the join timed out and the thread was left alone
C19_Witness ==
    /\ ret.op = "stop_buffering"
    /\ stop_flag
    /\ worker_thread = 1
    /\ threads[1].pc = "fetch"
    /\ caller = "idle"

\* C20: every connection the instance holds is released exactly once:
\* terminate() is never called twice on a connection over any sequence of
\* start and stop calls, and it has been called on the connection held when a
\* stop_buffering() returns, also after a start that found the stream not live.
C20_ReleasedExactlyOnce ==
    /\ \A c \in ThreadIds : terminate_calls[c] <= 1
    /\ (ret.op = "stop_buffering" /\ chat # 0) => terminate_calls[chat] = 1

\* a validate_livestream call has just returned after asking the collaborator
Invoked == ret.op = "validate_livestream" /\ ret.create_calls = 1

\* C21: every validate_livestream call that gets a connection from
\* pytchat.create calls terminate() on it exactly once before it returns,
\* whether is_alive() answered True, False or raised; a call that got no
\* connection calls terminate() on nothing; and what terminate() raises neither
\* leaves the call nor changes the result.
C21_ConnectionReleasedOnce ==
    ret.op = "validate_livestream" =>
        /\ ~ret.raised
        /\ ret.create_calls = 0 => ret.terminate_calls = 0
        /\ ret.create_calls = 1 =>
              /\ ret.terminate_calls = IF ret.collaborator.created THEN 1 ELSE 0
              /\ ret.value = ValidationResult(
                                [ret.collaborator EXCEPT !.terminate_raises = FALSE])

\* is_alive() raised on the connection just created and terminate() raised as
\* well: the connection was released once and the error result came back
C21_Witness ==
    /\ Invoked
    /\ ret.collaborator.created
    /\ ret.collaborator.exc.class = "TimeoutError"
    /\ ret.collaborator.terminate_raises
    /\ ret.terminate_calls = 1
    /\ ~ret.value.valid

\* the call before the one that has just returned was for the same video id
\* and less than 60 seconds earlier
CalledAgainWithin60 ==
    /\ ret.op = "validate_livestream"
    /\ ret.arg # ""
    /\ ret.previous.video_id = ret.arg
    /\ ret.time - ret.previous.time < 60

\* C22 as claimed: a cached result younger than 60 seconds is returned
\* unchanged without the collaborator, and any two validate_livestream calls
\* for the same id less than 60 seconds apart return the same result, the
\* later one without asking the collaborator.
C22_AnyTwoCallsWithin60Agree ==
    CalledAgainWithin60 =>
        /\ ret.value = ret.previous.value
        /\ ret.create_calls = 0

\* C22 as amended: a validate_livestream call made less than 60 seconds after
\* the call that wrote the cache entry of its id returns the result stored in
\* that entry, does not ask the collaborator and leaves the cache as it is;
\* the 60 seconds count from the call that wrote the entry, not from the latest
\* call that was served from it.
C22_FreshEntryServed ==
    [][\A video_id \in CacheKeys :
         (/\ ret'.op = "validate_livestream"
          /\ ret'.arg = video_id
          /\ validation_cache[video_id] # NoEntry
          /\ now - validation_cache[video_id][2] < 60) =>
             /\ ret'.value = validation_cache[video_id][1]
             /\ ret'.create_calls = 0
             /\ ret'.terminate_calls = 0
             /\ ~ret'.raised
             /\ validation_cache' = validation_cache]_vars

\* an entry written 59 seconds ago has just been served: the 'not live' result
\* of the first call, while the other id has no entry
C22_Witness ==
    /\ ret.op = "validate_livestream"
    /\ ret.create_calls = 0
    /\ ret.arg = "dQw4w9WgXcQ"
    /\ ret.time = 59
    /\ validation_cache["dQw4w9WgXcQ"][2] = 0
    /\ ret.value = [valid |-> TRUE, live |-> FALSE,
                    error |-> "Stream is not currently live"]
    /\ validation_cache["jNQXAC9IVRw"] = NoEntry

\* C23: an entry that is 60 seconds old or older counts as absent:
\* validate_livestream asks the collaborator again and overwrites the entry
\* with the new result and the time of the call. Nothing else takes an entry
\* away or changes it: time passing and calls for other ids leave it in the
\* dict, stale or not (clear_cache, which empties the dict, apart).
C23_StaleEntryReplaced ==
    [][\A video_id \in CacheKeys :
         /\ (/\ ret'.op = "validate_livestream"
             /\ ret'.arg = video_id
             /\ validation_cache[video_id] # NoEntry
             /\ now - validation_cache[video_id][2] >= 60) =>
                /\ ret'.create_calls = 1
                /\ validation_cache'[video_id] = << ret'.value, now >>
         /\ (/\ validation_cache'[video_id] # validation_cache[video_id]
             /\ ret'.op # "clear_cache") =>
                /\ ret'.op = "validate_livestream"
                /\ ret'.arg = video_id
                /\ ret'.create_calls = 1
                /\ validation_cache'[video_id] = << ret'.value, now >>]_vars

\* an entry written at 0 was found stale at exactly 60 seconds and replaced by
\* a different result, stamped 60
C23_Witness ==
    /\ Invoked
    /\ ret.arg = "dQw4w9WgXcQ"
    /\ ret.previous.video_id = "dQw4w9WgXcQ"
    /\ ret.previous.time = 0
    /\ ret.time = 60
    /\ ret.previous.value.live
    /\ ~ret.value.live
    /\ validation_cache["dQw4w9WgXcQ"] = << ret.value, 60 >>

\* C24: on a cache miss the result depends on what the collaborator did only:
\* no video id gives valid False without a call to the collaborator;
\* InvalidVideoIdException gives valid False, live False; a connection that is
\* not live gives valid True, live False; a live one valid True, live True,
\* error None; an exception whose text has both 'signal' and 'main thread' in
\* it, in any case, gives valid True, live True, error None; any other exception
\* valid False, live False and its text in error. The call never raises.
C24_ResultFromOutcome ==
    ret.op = "validate_livestream" =>
        /\ ~ret.raised
        /\ ret.arg = "" =>
              /\ ~ret.value.valid
              /\ ret.create_calls = 0
        /\ ret.create_calls = 1 =>
              LET o == ret.collaborator
                  Live == [valid |-> TRUE, live |-> TRUE, error |-> NoError]
              IN  /\ (o.exc.class = "none" /\ o.alive) => ret.value = Live
                  /\ (o.exc.class = "none" /\ ~o.alive) =>
                        (ret.value.valid /\ ~ret.value.live)
                  /\ o.exc.class = "InvalidVideoIdException" =>
                        (~ret.value.valid /\ ~ret.value.live)
                  /\ Join(o.exc.str) \in { "signal only works in main thread",
                                           "SIGNAL: MAIN THREAD" } =>
                        ret.value = Live
                  /\ Join(o.exc.str) = "signal timed out" =>
                        ret.value = [valid |-> FALSE, live |-> FALSE,
                                     error |-> "Validation error: signal timed out"]

\* pytchat.create raised the signal error spelled in capitals and the call
\* answered that the stream is live
C24_Witness ==
    /\ Invoked
    /\ ~ret.collaborator.created
    /\ Join(ret.collaborator.exc.str) = "SIGNAL: MAIN THREAD"
    /\ ret.value = [valid |-> TRUE, live |-> TRUE, error |-> NoError]

\* C25: every validate_livestream call that asks the collaborator stores its
\* result under its video id with the time of the call, whatever the result
\* (live, not live, invalid id, another error, the optimistic answer to the
\* signal error), leaving the other entries alone, and a fresh entry is served
\* whatever it holds; a call without a video id leaves the cache untouched.
C25_EveryResultCached ==
    [][/\ (ret'.op = "validate_livestream" /\ ret'.create_calls = 1) =>
             validation_cache' =
                [validation_cache EXCEPT ![ret'.arg] = << ret'.value, now >>]
       /\ (ret'.op = "validate_livestream" /\ ret'.create_calls = 0) =>
             /\ validation_cache' = validation_cache
             /\ ret'.arg # "" => ret'.value = validation_cache[ret'.arg][1]]_vars

\* the error result of a call whose collaborator timed out has just been served
\* from the cache, 59 seconds later
C25_Witness ==
    /\ ret.op = "validate_livestream"
    /\ ret.create_calls = 0
    /\ ret.arg = "jNQXAC9IVRw"
    /\ ret.time - validation_cache["jNQXAC9IVRw"][2] = 59
    /\ ret.value = [valid |-> FALSE, live |-> FALSE,
                    error |-> "Validation error: signal timed out"]

\* C26: clear_cache() leaves the cache empty and does not raise, and a
\* validate_livestream call for a video id that has no entry asks the
\* collaborator, however recently the id was validated.
C26_ClearCacheEmpties ==
    /\ [](ret.op = "clear_cache" =>
             /\ ~ret.raised
             /\ \A video_id \in CacheKeys : validation_cache[video_id] = NoEntry)
    /\ [][\A video_id \in CacheKeys :
            (/\ ret'.op = "validate_livestream"
             /\ ret'.arg = video_id
             /\ validation_cache[video_id] = NoEntry) =>
                ret'.create_calls = 1]_vars

\* the collaborator was asked about an id that had been validated in the same
\* second: the cache was cleared in between
C26_Witness ==
    /\ Invoked
    /\ ret.arg = "dQw4w9WgXcQ"
    /\ ret.previous.video_id = "dQw4w9WgXcQ"
    /\ ret.previous.time = ret.time
    /\ ret.time = 59

\* the input is a bare token with nothing but whitespace around it
BareToken(parts) ==
    /\ parts.shape = << >>
    /\ parts.scheme = << >>
    /\ parts.subdomain = << >>
    /\ parts.suffix = << >>

\* the input is one of the two URL shapes
UrlShaped(parts) == parts.shape \in { WatchShape, ShortShape }

C28_NoPartialMatch ==
    (/\ ret.op = "parse_youtube_url"
     /\ ~(ret.parts.token \in GoodTokens
            /\ (BareToken(ret.parts) \/ UrlShaped(ret.parts)))) =>
         ret.value = [is_none |-> TRUE]

\* C29: a search or get_buffer_stats() sees the buffer as it is at one instant:
\* from the moment the query has the lock to its return nobody appends, evicts
\* or stamps the first message, no worker is inside its append, the walk over
\* the deque is never disturbed, and the result is the filter, or the length
\* and the time span, of the buffer of that instant. Between two messages of a
\* fetched batch the lock is free, so a query may see a part of the batch.
C29_QueriesSeeOneInstant ==
    /\ [][buffer_lock = QueryThread =>
            /\ buffer' = buffer
            /\ first_message_time' = first_message_time
            /\ appended' = appended]_vars
    /\ [](buffer_lock = QueryThread =>
            \A w \in ThreadIds : threads[w].pc # "append")
    /\ [](ret.op \in { "search_buffer", "search_by_username" } =>
            /\ ~ret.raised
            /\ ret.value =
                  IF ret.op = "search_buffer"
                  THEN SelectSeq(buffer, LAMBDA m : IsSubstring(ret.arg, m.message))
                  ELSE SelectSeq(buffer, LAMBDA m : EqualIgnoringCase(m.author, ret.arg)))
    /\ [](ret.op = "get_buffer_stats" =>
            /\ ~ret.raised
            /\ ret.value.message_count = Len(buffer)
            /\ ret.value.message_count = 0 <=> first_message_time = NoTime)

\* a search has returned the one message appended so far while the worker
\* still has the second message of the same batch to append
C29_Witness ==
    /\ ret.op = "search_buffer"
    /\ Len(ret.value) = 1
    /\ fetched = 2
    /\ threads[1].pc = "items"
    /\ Len(threads[1].batch) = 1
    /\ buffer_lock = 0

\* C30: a worker holds buffer_lock exactly while it is at the append of one
\* message, never in is_alive(), get(), the 0.5 s pause or a backoff sleep;
\* each time it takes the lock it gives it back; and a query that has been
\* called returns, also when the worker's fetch never does.
C30_QueriesNeverWaitOnNetwork ==
    /\ [](\A w \in ThreadIds : buffer_lock = w <=> threads[w].pc = "append")
    /\ \A w \in ThreadIds : (buffer_lock = w) ~> (buffer_lock # w)
    /\ (query.pc # "idle") ~> (query.pc = "idle")

\* the statistics have been returned while the worker sits in its fetch with the
\* retry message of an earlier failure set
C30_Witness ==
    /\ ret.op = "get_buffer_stats"
    /\ threads[1].pc = "fetch"
    /\ threads[1].reconnect_attempts = 1
    /\ query.pc = "idle"
    /\ buffer_lock = 0

\* a worker thread takes the step, and no start_buffering call does
WorkerSteps == starts' = starts /\ \E w \in ThreadIds : threads'[w] # threads[w]

\* C31 as stated: the deque, both flags, error_message and first_message_time
\* change only in steps of a worker thread, never in a step of start_buffering,
\* stop_buffering or a query.
C31_OnlyWorkerWrites ==
    [][<< buffer, stop_flag, stream_ended_flag, error_message, first_message_time >>'
          # << buffer, stop_flag, stream_ended_flag, error_message, first_message_time >>
       => WorkerSteps]_vars

\* C31: the deque and first_message_time change only in the append of a worker;
\* stream_ended_flag is set only by a worker that finds the connection not
\* alive; stop_flag is set only by stop_buffering; error_message is written
\* only by a worker that caught an exception and by a start_buffering that
\* returns False; the flags are cleared only by start_buffering; the steps that
\* complete a query or stop_buffering write none of the rest.
C31_WritersOfSessionState ==
    [][/\ (buffer' # buffer \/ first_message_time' # first_message_time) =>
            /\ starts' = starts
            /\ \E w \in ThreadIds : threads[w].pc = "append" /\ threads'[w].pc = "items"
       /\ (stream_ended_flag' /\ ~stream_ended_flag) =>
            /\ starts' = starts
            /\ \E w \in ThreadIds : threads[w].pc = "check" /\ threads'[w].pc = "done"
       /\ (stop_flag' /\ ~stop_flag) =>
            /\ caller = "idle" /\ caller' \in { "join", "terminate" }
            /\ threads' = threads
       /\ (stop_flag /\ ~stop_flag') \/ (stream_ended_flag /\ ~stream_ended_flag') =>
            ret'.op = "start_buffering"
       /\ error_message' # error_message =>
            \/ ret'.op = "start_buffering" /\ ~ret'.value /\ threads' = threads
            \/ /\ starts' = starts
               /\ \E w \in ThreadIds :
                     threads'[w].reconnect_attempts = threads[w].reconnect_attempts + 1
       /\ ret'.op \in { "get_buffer_stats", "stop_buffering" } =>
            UNCHANGED << buffer, stop_flag, stream_ended_flag, error_message,
                         first_message_time >>
      ]_vars

\* stop_buffering has returned on an instance whose worker had stored a message
\* and written a retry message: stop_flag was set by the caller's own step
C31_Witness ==
    /\ ret.op = "stop_buffering"
    /\ stop_flag
    /\ buffer # << >>
    /\ first_message_time # NoTime
    /\ error_message = RetryMessage(1)

\* C32: first_message_time is written once, by the append of the first message
\* the instance stores, by the worker that holds the lock, with the clock
\* reading of that moment; before that it is None, and after that no step
\* (a later append, a start, a stop) changes it.
C32_FirstMessageTimeSetOnce ==
    /\ [](first_message_time = NoTime <=> appended = << >>)
    /\ [][first_message_time # NoTime => first_message_time' = first_message_time]_vars
    /\ [][first_message_time' # first_message_time =>
            /\ appended = << >> /\ Len(appended') = 1
            /\ first_message_time' = now
            /\ \E w \in ThreadIds :
                  /\ buffer_lock = w
                  /\ threads[w].pc = "append" /\ threads'[w].pc = "items"]_vars

\* the instance was stopped and started again and its second worker has
\* appended, at a later clock reading than the stamp
C32_Witness ==
    /\ starts = 2
    /\ ret.op = "stop_buffering"
    /\ threads[2].pc = "items"
    /\ Len(appended) >= 2
    /\ first_message_time = 0
    /\ now = 1

\* stored is name, or name without its first character if that is '@'
OneAtRemoved(name, stored) ==
    \/ name = << "@" >> \o stored
    \/ name = stored /\ (stored = << >> \/ stored[1] # "@")

\* C33: the dict a worker builds for a fetched message has the feed's author
\* name with one leading '@' removed, if there is one, and the feed's text as
\* it is; the append stores that dict as the newest element; and no step
\* changes a stored message: the deque only ever gains a newest element and,
\* when full, loses its oldest.
C33_StoredAsFetched ==
    /\ [][\A w \in ThreadIds :
            threads[w].pc = "items" /\ threads'[w].pc = "append" =>
                /\ OneAtRemoved(Head(threads[w].batch).authorName, threads'[w].msg_dict.author)
                /\ threads'[w].msg_dict.message = Head(threads[w].batch).text]_vars
    /\ [][\A w \in ThreadIds :
            threads[w].pc = "append" /\ threads'[w].pc = "items" =>
                /\ Len(buffer') >= 1
                /\ buffer'[Len(buffer')].author = threads[w].msg_dict.author
                /\ buffer'[Len(buffer')].message = threads[w].msg_dict.message]_vars
    /\ [][\/ buffer' = buffer
          \/ \E i \in 0..1 :
               /\ Len(buffer') = Len(buffer) + 1 - i
               /\ SubSeq(buffer', 1, Len(buffer') - 1) = SubSeq(buffer, 1 + i, Len(buffer))]_vars

\* the feed's "@@a" is stored as "@a", with its text, and is still there
\* after a later message was appended
C33_Witness ==
    /\ Len(buffer) = 2
    /\ buffer[1].author = << "@", "a" >>
    /\ buffer[1].message = << "b" >>
    /\ ret.op = "search_by_username"

\* the greatest member of a non-empty set of positions
Greatest(S) == CHOOSE i \in S : \A j \in S : j <= i

\* C34: when the search for a name finds messages, the card under
\* "Latest message:" shows the text of the match at the greatest position of
\* the buffer.
C34_LatestMatchShown ==
    ret.op = "perform_search" /\ ret.matches # << >> =>
        LET S == Positions(buffer, LAMBDA m : EqualIgnoringCase(m.author, ret.arg))
        IN  /\ ret.card.shown
            /\ ret.card.header = "Latest message:"
            /\ ret.card.text = buffer[Greatest(S)].message

\* C35: error_message, once it holds a message, never goes back to None; it is
\* written only by a start_buffering that returns False and by a worker that
\* catches an exception, so a fetch that succeeds, a start that succeeds and a
\* stop leave the message in place; and get_error_message() returns it as it is.
C35_ErrorMessageNeverCleared ==
    /\ [][error_message # NoError => error_message' # NoError]_vars
    /\ [][error_message' # error_message =>
            \/ ret'.op = "start_buffering" /\ ~ret'.value
            \/ \E w \in ThreadIds :
                  /\ threads[w].pc \in { "check", "fetch", "items" }
                  /\ threads'[w].pc \in { "backoff", "done" }
                  /\ threads'[w].reconnect_attempts = threads[w].reconnect_attempts + 1]_vars
    /\ [](ret.op = "get_error_message" => ret.value = error_message)

\* after a failed fetch the worker has fetched and stored a message and reset
\* its retry counter, and get_error_message() still returns the retry message
C35_Witness ==
    /\ ret.op = "get_error_message"
    /\ ret.value = RetryMessage(1)
    /\ threads[1].pc = "pause"
    /\ threads[1].reconnect_attempts = 0
    /\ buffer # << >>

\* a stop_buffering() call made after the start has returned
StopHasReturned == chat # 0 /\ terminate_calls[chat] >= 1

\* C36: once stop_buffering() has returned, no step changes the deque, also
\* when the join timed out on a worker that was inside chat.get().
C36_NoAppendAfterStop ==
    [][StopHasReturned => buffer' = buffer]_vars

\* the fetched messages worker w has at hand and has not appended yet
InHand(w) == Len(threads[w].batch) + (IF threads[w].msg_dict = << >> THEN 0 ELSE 1)

\* C37: when reading a message of a fetched batch raises, the step leaves the
\* deque, the messages appended so far and first_message_time as they are,
\* drops what is left of the batch, which the feed does not deliver again, and
\* counts as one failure: the counter goes up by one and the retry message, or
\* the final one, is written. Messages dropped are never appended later.
C37_NoRollbackOnFailure ==
    /\ [][\A w \in ThreadIds :
            (threads[w].pc = "items" /\ threads'[w].pc \in { "backoff", "done" }) =>
                /\ buffer' = buffer
                /\ appended' = appended
                /\ first_message_time' = first_message_time
                /\ fetched' = fetched
                /\ threads'[w].batch = << >>
                /\ threads'[w].reconnect_attempts = threads[w].reconnect_attempts + 1
                /\ error_message' \in { RetryMessage(threads'[w].reconnect_attempts),
                                       LostMessage }]_vars
    /\ [](\A w \in ThreadIds :
            /\ threads[w].pc \in { "backoff", "done" } => InHand(w) = 0
            /\ ThreadAlive(w) => Len(appended) + InHand(w) <= fetched)

\* of two messages fetched the first is in the deque and stamped, reading the
\* second raised and it is gone, and the worker sleeps before its first retry
C37_Witness ==
    /\ threads[1].pc = "backoff"
    /\ threads[1].reconnect_attempts = 1
    /\ threads[1].batch = << >>
    /\ fetched = 2
    /\ Len(buffer) = 1
    /\ first_message_time # NoTime
    /\ error_message = RetryMessage(1)

\* the result of a search has a copy of the stored message m
Found(m) == \E k \in 1..Len(ret.value) : ret.value[k] = m

\* C38: search_by_username compares the name as given: a message stored under
\* the author a (so also one captured from the feed author '@' + a) is returned
\* by the search for a, and is not returned by the search for '@' + a nor by
\* the search for a with a blank before or after it.
C38_SearchedNameNotNormalized ==
    ret.op = "search_by_username" =>
        \A i \in 1..Len(buffer) :
            /\ ret.arg = buffer[i].author => Found(buffer[i])
            /\ ret.arg = << "@" >> \o buffer[i].author => ~Found(buffer[i])
            /\ ret.arg \in { << " " >> \o buffer[i].author, buffer[i].author \o << " " >> }
                  => ~Found(buffer[i])

\* the feed's "@A" and "a" are stored as "A" and "a", and the search for "@a"
\* has returned nothing
C38_Witness ==
    /\ ret.op = "search_by_username"
    /\ ret.arg = << "@", "a" >>
    /\ ret.value = << >>
    /\ Len(buffer) = 2
    /\ buffer[1].author = << "A" >>
    /\ buffer[2].author = << "a" >>

\* C39: a validate_livestream call served from the cache changes no entry, not
\* even the time of the one it reads; a call that asks the collaborator changes
\* the entry of its own video id only; an entry gets its time only from a call
\* that asked the collaborator, at that call's clock reading; and a call that
\* finds an entry of 60 seconds or more asks the collaborator, however
\* recently the entry was read.
C39_HitLeavesCacheAlone ==
    [][/\ (ret'.op = "validate_livestream" /\ ret'.create_calls = 0) =>
             \A k \in CacheKeys : validation_cache'[k] = validation_cache[k]
       /\ (ret'.op = "validate_livestream" /\ ret'.create_calls = 1) =>
             \A k \in CacheKeys \ { ret'.arg } : validation_cache'[k] = validation_cache[k]
       /\ \A k \in CacheKeys :
             /\ (validation_cache'[k] # validation_cache[k] /\ validation_cache'[k] # NoEntry) =>
                   /\ ret'.op = "validate_livestream"
                   /\ ret'.create_calls = 1
                   /\ ret'.arg = k
                   /\ validation_cache'[k][2] = now
             /\ ( /\ ret'.op = "validate_livestream"
                  /\ ret'.arg = k
                  /\ validation_cache[k] # NoEntry
                  /\ now - validation_cache[k][2] >= 60 ) =>
                   ret'.create_calls = 1]_vars

\* the id was validated 59 seconds ago too, from the cache; now, at 118, the
\* collaborator was asked again and only this id's entry was rewritten: the
\* other id's entry, written at 0, is as it was
C39_Witness ==
    /\ ret.op = "validate_livestream"
    /\ ret.create_calls = 1
    /\ ret.arg = "dQw4w9WgXcQ"
    /\ ret.time = 118
    /\ ret.previous.video_id = "dQw4w9WgXcQ"
    /\ ret.previous.time = 59
    /\ validation_cache["dQw4w9WgXcQ"][2] = 118
    /\ validation_cache["jNQXAC9IVRw"] # NoEntry
    /\ validation_cache["jNQXAC9IVRw"][2] = 0

====
